---- MODULE Spec2Model ----
(***************************************************************************)
(* MiniHTTP over Meshtastic (eriqnelson/webtastic): the Fragmenter         *)
(* (fragment.py), the Responder entry points (server.py, server2.py,       *)
(* server3.py + publisher.py) and the Reassembler / Retry Driver           *)
(* (client.py, client3.py).                                                *)
(*                                                                         *)
(* Strings are sequences of tokens.  File contents are sequences of        *)
(* one-character units; a path is a sequence of path tokens ("/" and       *)
(* names); literal pieces of generated text ("404: ", " not found") are    *)
(* single tokens.                                                          *)
(***************************************************************************)
EXTENDS Integers, Sequences, FiniteSets, TLC

VARIABLES
    fs,          \* the server's files: fs path -> content
    pc,          \* position of the modelled process
    filepath,    \* FragSpec: argument of fragment_html_file
    fragments,   \* FragSpec: what fragment_html_file returned / raised
    my_id,       \* server: my_id_holder["id"] / my_id ("" = None)
    entry,       \* RespSpec: the Responder entry point that ran
    rx,          \* RespSpec: the inbound packet it was given
    tx,          \* RespSpec: the envelopes it emitted, in order
    raised,      \* RespSpec: the handler let an exception escape
    send_failed, \* server: the indexes of tx whose transport send failed
    client,      \* Spec: the client program running ("client" or "client3")
    server,      \* Spec: the server entry point answering on the channel
    client_path, \* client: the path of the pending request
    cpc,         \* client: "init", "waiting" (request sent), "done" or "crashed"
    seen_ids,    \* client: seen_ids / FragmentAssembler._seen
    received_fragments,  \* client: received_fragments / _bykey, in insertion order
    complete,    \* client: the completion event is set
    saved,       \* client: the file written under downloads/
    key,         \* client.py: the retry loop's key (<<>> = None)
    waited,      \* client.py: poll intervals since start / the last retry round
    net_get,     \* texts in flight from the client to the server
    net_resp,    \* texts in flight from the server to the client
    client_tx,   \* client: the texts its latest driver step handed to the radio
    tx_failed,   \* client: those of client_tx whose transport send failed
    now,         \* server3: the clock publisher._build_env reads, in seconds
    earlier,     \* TwiceSpec: the first handling of the behaviour
    delivered,   \* AsmSpec: the packets handed to the receive callback so far
    buffers,     \* client2: self.buffers.get(self.path): total and index -> data
    previous,    \* AgainSpec: the closure of the earlier start_client call
    lock,        \* ThreadSpec: the hook holding start_client's lock ("" = free)
    hooks,       \* ThreadSpec: hook -> position and message of its callback
    ppc,         \* ThreadSpec: position of the retry loop
    missing      \* ThreadSpec: the retry loop's missing list still to request

fragVars == <<filepath, fragments>>

respVars == <<entry, rx, tx, raised, send_failed>>

clientVars == <<client, client_path, cpc, seen_ids, received_fragments, complete, saved, key, waited>>

netVars == <<net_get, net_resp>>

asmVars == <<delivered, buffers, previous>>

threadVars == <<lock, hooks, ppc, missing>>

vars == <<fs, pc, fragVars, my_id, respVars, server, clientVars, netVars,
          client_tx, tx_failed, now, earlier, asmVars, threadVars>>

----------------------------------------------------------------------------
(* Bounds and program constants *)

\* fragment.py:10  range(0, len(content), 122)
ChunkSize == 122

\* longest file content explored (300 units = 3 fragments: 122, 122, 56)
MaxLen == 300

\* start_client's timeout argument, in poll intervals of the retry loop
Timeout == 2

\* the seconds the server's clock runs for
MaxClock == 1

----------------------------------------------------------------------------
(* Python string helpers *)

Min(a, b) == IF a < b THEN a ELSE b

\* s[i:j] for 0 <= i <= j (0-based, end exclusive, clipped to len(s))
Slice(s, i, j) == SubSeq(s, i + 1, Min(j, Len(s)))

\* s.startswith(p)
StartsWith(s, p) == Len(s) >= Len(p) /\ SubSeq(s, 1, Len(p)) = p

RECURSIVE Join(_)
\* ''.join(list)
Join(list) == IF list = <<>> THEN <<>> ELSE Head(list) \o Join(Tail(list))

----------------------------------------------------------------------------
(* File contents and the html/ directory *)

Units == <<"a", "b", "c", "d", "e", "f", "g">>

\* content of length L whose i-th unit is Units[(i*p mod 7) + 1]:
\* p = 0 is a constant string, p = 1 a string in which a shifted, dropped or
\* repeated chunk is visible (7 does not divide 122)
Content(L, p) == [i \in 1..L |-> Units[((i * p) % Len(Units)) + 1]]

Patterns == {0, 1}

AllContents == {Content(L, p) : L \in 0..MaxLen, p \in Patterns}

\* lengths around the chunk boundaries
BoundaryLens == {0, 1, ChunkSize, ChunkSize + 1, 2 * ChunkSize + 1, MaxLen}

BoundaryContents == {Content(L, 1) : L \in BoundaryLens}

HtmlDir == <<"html", "/">>

FileA == <<"html", "/", "a">>

\* a file of the directory htmlx, the sibling of html
SiblingFile == <<"html", "x", "/", "s">>

\* a file of the server's working directory, next to html
OutsideFile == <<"s">>

\* directories of the server's working directory, as open() sees them
Directories == {<<"html">>, HtmlDir, <<"html", "x">>, <<"html", "x", "/">>}

IndexFile == <<"html", "/", "index", ".html">>

\* the file system holding content c in html/a, next to html/index.html,
\* with one file in htmlx and one in the working directory
MakeFs(c) ==
    (FileA :> c) @@ (IndexFile :> <<"i", "d", "x">>)
        @@ (SiblingFile :> <<"s", "e", "c">>) @@ (OutsideFile :> <<"o", "u", "t">>)

RECURSIVE SplitLoop(_, _, _)
\* the segments of a path, split at "/"
SplitLoop(p, cur, acc) ==
    IF p = <<>> THEN Append(acc, cur)
    ELSE IF Head(p) = "/" THEN SplitLoop(Tail(p), <<>>, Append(acc, cur))
    ELSE SplitLoop(Tail(p), Append(cur, Head(p)), acc)

RECURSIVE ResolveSegs(_, _, _)
\* Path.resolve() on segments: "" and "." are skipped, ".." drops the
\* segment before it (above the server's directory it is kept; at the
\* filesystem root it is dropped)
ResolveSegs(segs, acc, abs) ==
    IF segs = <<>> THEN acc
    ELSE LET g == Head(segs)
         IN IF g = <<>> \/ g = <<".">> THEN ResolveSegs(Tail(segs), acc, abs)
            ELSE IF g = <<"..">> THEN
                 IF acc # <<>> /\ acc[Len(acc)] # <<"..">>
                 THEN ResolveSegs(Tail(segs), SubSeq(acc, 1, Len(acc) - 1), abs)
                 ELSE IF abs THEN ResolveSegs(Tail(segs), acc, abs)
                 ELSE ResolveSegs(Tail(segs), Append(acc, g), abs)
            ELSE ResolveSegs(Tail(segs), Append(acc, g), abs)

RECURSIVE JoinSlash(_)
JoinSlash(segs) ==
    IF segs = <<>> THEN <<>>
    ELSE IF Len(segs) = 1 THEN Head(segs)
    ELSE Head(segs) \o <<"/">> \o JoinSlash(Tail(segs))

\* Path(p).resolve(); a path is absolute when it starts with "/", otherwise
\* it is relative to the server's directory
Resolve(p) ==
    LET abs == StartsWith(p, <<"/">>)
    IN (IF abs THEN <<"/">> ELSE <<>>) \o JoinSlash(ResolveSegs(SplitLoop(p, <<>>, <<>>), <<>>, abs))

\* open(filepath, 'r').read(): the content, or the exception raised; the
\* operating system follows the "." and ".." of the path
OpenRead(files, p) ==
    LET q == Resolve(p)
    IN IF q \in DOMAIN files THEN [err |-> "", content |-> files[q]]
       ELSE IF q \in Directories THEN [err |-> "IsADirectoryError", content |-> <<>>]
       ELSE [err |-> "FileNotFoundError", content |-> <<>>]

----------------------------------------------------------------------------
(* fragment.py *)

RECURSIVE FragLoop(_, _, _)
\* for i in range(0, len(content), 122): fragments.append(content[i:i+122])
FragLoop(content, i, acc) ==
    IF i >= Len(content) THEN acc
    ELSE FragLoop(content, i + ChunkSize,
                  Append(acc, Slice(content, i, i + ChunkSize)))

\* mutant: the slice end is off by one (content[i:i+121])
SplitContentShort(content) ==
    LET F[i \in 0..(Len(content) + ChunkSize)] ==
            IF i >= Len(content) THEN <<>>
            ELSE <<Slice(content, i, i + ChunkSize - 1)>> \o F[i + ChunkSize]
    IN F[0]

\* the chunk list fragment_html_file builds from the content it read
SplitContent(content) == FragLoop(content, 0, <<>>)

\* fragment_html_file(filepath): [err, frags]; err # "" is the exception
\* open() raised
fragment_html_file(files, p) ==
    LET r == OpenRead(files, p)
    IN IF r.err # "" THEN [err |-> r.err, frags |-> <<>>]
       ELSE [err |-> "", frags |-> SplitContent(r.content)]

----------------------------------------------------------------------------
(* JSON objects (Python dicts) and packets *)

\* A dict with the protocol's keys: keys is the set of keys present, bad the
\* numeric keys whose value is not a number (int(x) raises), frac the numeric
\* keys whose value is the float m[k] + 0.5; a key that is absent holds the
\* field's zero value; ts is the value of the key "ts".
Dict(keys, type, path, frag, of_frag, ofv, data) ==
    [keys |-> keys, bad |-> {}, frac |-> {}, type |-> type, path |-> path, frag |-> frag,
     of_frag |-> of_frag, of |-> ofv, data |-> data, ts |-> 0]

Has(m, k) == k \in m.keys

\* m.get("type")
TypeOf(m) == IF Has(m, "type") THEN m.type ELSE "None"

\* m.get("path") or "/"
PathOrRoot(m) == IF Has(m, "path") /\ m.path # <<>> THEN m.path ELSE <<"/">>

\* {"type": "GET", "path": path} and {"type": "GET", "path": path, "frag": k}
GetDict(path) == Dict({"type", "path"}, "GET", path, 0, 0, 0, <<>>)

GetFragDict(path, k) == Dict({"type", "path", "frag"}, "GET", path, k, 0, 0, <<>>)

\* the text of a packet: kind "none" (no decoded.text), "plain" (text that
\* is not JSON) or "json" (the serialisation of obj); stamp = the text
\* starts with the marker "MH1 "
JsonText(obj) == [kind |-> "json", stamp |-> FALSE, obj |-> obj]

NoDict == Dict({}, "", <<>>, 0, 0, 0, <<>>)

PlainText == [kind |-> "plain", stamp |-> FALSE, obj |-> NoDict]

NoText == [kind |-> "none", stamp |-> FALSE, obj |-> NoDict]

\* json.loads(text): ok and the object, or a parse error; a stamped text
\* is not JSON
JsonLoads(text) ==
    IF text.kind = "json" /\ ~text.stamp THEN [ok |-> TRUE, obj |-> text.obj]
    ELSE [ok |-> FALSE, obj |-> NoDict]

\* the text as it appears inside a generated data string
TextRepr(text) ==
    IF text.kind = "json" THEN <<"{json}">>
    ELSE IF text.kind = "plain" THEN <<"hello">>
    ELSE <<>>

ClientNodeId == "!client"

ServerNodeId == "!server"

TextPacket(from, text) ==
    [fromId |-> from, portnum |-> "TEXT_MESSAGE_APP", text |-> text]

\* what a handler did: the envelopes it emitted, in order, and whether an
\* exception escaped it
Emit(envs) == [out |-> envs, raised |-> FALSE]

Raise == [out |-> <<>>, raised |-> TRUE]

----------------------------------------------------------------------------
(* server.py *)

\* _coerce_to_dict(msg) for a Meshtastic packet dict (case 2)
_coerce_to_dict(packet) ==
    IF packet.text.kind = "none" THEN [ok |-> FALSE, payload |-> NoDict]
    ELSE LET j == JsonLoads(packet.text)
         IN [ok |-> j.ok, payload |-> j.obj]

\* one envelope of create_response_envelopes
RespEnvelope(path, frag, total, data) ==
    Dict({"type", "path", "frag", "of_frag", "data"}, "RESP", path, frag, total, 0, data)

\* mutant: frag is the 0-based loop index i instead of i + 1
create_response_envelopes_zero_based(path, frags) ==
    [k \in 1..Len(frags) |-> RespEnvelope(path, k - 1, Len(frags), frags[k])]

\* k is enumerate's i + 1
create_response_envelopes(path, frags) ==
    [k \in 1..Len(frags) |-> RespEnvelope(path, (k - 1) + 1, Len(frags), frags[k])]

HtmlPath(path) == <<"html">> \o path

handle_get_message(files, packet) ==
    LET c == _coerce_to_dict(packet)
        message == c.payload
        path == message.path
        r == fragment_html_file(files, HtmlPath(path))
        envs == create_response_envelopes(path, r.frags)
    IN IF ~c.ok THEN Emit(<<>>)
       ELSE IF TypeOf(message) # "GET" THEN Emit(<<>>)
       ELSE IF ~Has(message, "path") \/ path = <<>> THEN Emit(<<>>)
       ELSE IF r.err = "FileNotFoundError" THEN Emit(<<>>)
       ELSE IF r.err # "" THEN Raise
       ELSE IF Has(message, "frag") THEN
            IF "frag" \in message.bad THEN Raise
            ELSE IF 1 <= message.frag /\ message.frag <= Len(r.frags)
                 THEN Emit(<<envs[message.frag]>>)
                 ELSE Emit(<<>>)
       ELSE Emit(envs)

\* {"type": "RESP", "path": "/echo", "frag": 1, "of_frag": 1, "data": ...}
EchoEnvelope(data) == RespEnvelope(<<"/", "echo">>, 1, 1, data)

\* f"404: {path} not found"
NotFoundData(path) == <<"404: ">> \o path \o <<" not found">>

NotFoundEnvelope(path) == RespEnvelope(path, 1, 1, NotFoundData(path))

\* text or f"port={portnum}"
TextOrPort(text) == IF TextRepr(text) # <<>> THEN TextRepr(text) ELSE <<"port=">>

\* start_server.handle_message(raw); myid is my_id_holder["id"]
handle_message(files, myid, raw) ==
    LET j == JsonLoads(raw.text)
        req == j.obj
        path == PathOrRoot(req)
        r == fragment_html_file(files, HtmlPath(path))
        envs == create_response_envelopes(path, r.frags)
        frag_i == IF "frag" \in req.bad THEN -1 ELSE req.frag
    IN IF myid # "" /\ raw.fromId = myid THEN Emit(<<>>)
       ELSE IF raw.portnum # "TEXT_MESSAGE_APP" THEN Emit(<<>>)
       ELSE IF ~j.ok THEN Emit(<<EchoEnvelope(TextOrPort(raw.text))>>)
       ELSE IF TypeOf(req) # "GET" THEN Emit(<<EchoEnvelope(TextRepr(raw.text))>>)
       ELSE IF r.err = "FileNotFoundError" THEN Emit(<<NotFoundEnvelope(path)>>)
       ELSE IF r.err # "" THEN Emit(<<>>)
       ELSE IF Has(req, "frag") THEN
            IF 1 <= frag_i /\ frag_i <= Len(r.frags)
            THEN Emit(<<envs[frag_i]>>)
            ELSE Emit(<<>>)
       ELSE Emit(envs)

----------------------------------------------------------------------------
(* server2.py *)

RECURSIVE LStripSlash(_)
\* path.lstrip('/')
LStripSlash(path) ==
    IF path # <<>> /\ Head(path) = "/" THEN LStripSlash(Tail(path)) ELSE path

\* the filesystem path handle_packet derives from the request path
Server2FsPath(path) ==
    IF StartsWith(path, <<"/", "html", "/">>) THEN LStripSlash(path)
    ELSE IF StartsWith(path, <<"/">>) THEN HtmlPath(path)
    ELSE <<"html", "/">> \o path

\* the default echo at the end of handle_packet
Server2Echo(packet) ==
    EchoEnvelope(<<"echo: ">> \o TextOrPort(packet.text))

\* main.handle_packet(packet); myid is main's my_id
handle_packet(files, myid, packet) ==
    LET j == JsonLoads(packet.text)
        req == j.obj
        is_get == j.ok /\ TypeOf(req) = "GET"
        path == PathOrRoot(req)
        r == fragment_html_file(files, Server2FsPath(path))
        total == Len(r.frags)
        i == IF "frag" \in req.bad THEN -1 ELSE req.frag
    IN IF myid # "" /\ packet.fromId = myid THEN Emit(<<>>)
       ELSE IF ~is_get THEN Emit(<<Server2Echo(packet)>>)
       ELSE IF r.err = "FileNotFoundError" THEN Emit(<<NotFoundEnvelope(path)>>)
       ELSE IF r.err # "" THEN Emit(<<Server2Echo(packet)>>)
       ELSE IF Has(req, "frag") THEN
            IF 1 <= i /\ i <= total
            THEN Emit(<<RespEnvelope(path, i, total, r.frags[i])>>)
            ELSE Emit(<<>>)
       ELSE Emit([idx \in 1..total |-> RespEnvelope(path, idx, total, r.frags[idx])])

----------------------------------------------------------------------------
(* publisher.py *)

\* the envelope send_envelope builds with _build_env: the total travels in
\* the key "of"
\* "ts": int(time.time()), clock = the time of the call
PublisherEnvelope(clock, path, frag, of_frag, data) ==
    [Dict({"ver", "type", "ts", "path", "frag", "of", "data", "chan"},
          "RESP", path, frag, 0, of_frag, data) EXCEPT !.ts = clock]

\* the envelopes send_fragments sends, in order
send_fragments(clock, path, frags) ==
    [idx \in 1..Len(frags) |-> PublisherEnvelope(clock, path, idx, Len(frags), frags[idx])]

----------------------------------------------------------------------------
(* server3.py *)

\* the HTML root, relative to the server's directory
HtmlRoot == <<"html">>

\* the index of the last "/" of p, 0 if none
LastSlash(p) ==
    LET S == {i \in 1..Len(p) : p[i] = "/"}
    IN IF S = {} THEN 0 ELSE CHOOSE i \in S : \A k \in S : k <= i

\* normalize_request_path(req_path), for paths without blanks or escapes
normalize_request_path(req_path) ==
    LET rel == IF StartsWith(req_path, <<"/", "html", "/">>)
               THEN SubSeq(req_path, 4, Len(req_path))
               ELSE LStripSlash(req_path)
    IN IF rel = <<>> \/ rel[Len(rel)] = "/"
       THEN rel \o <<"index", ".html">>
       ELSE rel

\* the tokens that carry a "." (extensions and the dot segments)
DotTokens == {".html", ".", ".."}

\* html_dir / rel: an absolute rel replaces html_dir
PathJoin(dir, rel) ==
    IF StartsWith(rel, <<"/">>) THEN rel ELSE dir \o <<"/">> \o rel

\* Path.exists()
Exists(files, p) == p \in DOMAIN files \/ p \in Directories

\* "." in Path(rel).name
NameHasDot(rel) ==
    \E i \in (LastSlash(rel) + 1)..Len(rel) : rel[i] \in DotTokens

\* secure_candidate(html_dir, rel): [ok, path]; ok = FALSE is None
secure_candidate(files, html_dir, rel) ==
    LET candidate == Resolve(PathJoin(html_dir, rel))
        alt == Resolve(PathJoin(html_dir, rel \o <<".html">>))
    IN IF ~StartsWith(candidate, html_dir) THEN [ok |-> FALSE, path |-> candidate]
       ELSE IF /\ ~Exists(files, candidate)
               /\ ~NameHasDot(rel)
               /\ StartsWith(alt, html_dir)
               /\ Exists(files, alt)
            THEN [ok |-> TRUE, path |-> alt]
       ELSE [ok |-> TRUE, path |-> candidate]

\* the single-RESP dicts on_json hands to send_json
Server3Status(req_path, text) == RespEnvelope(req_path, 1, 1, text)

\* main.on_json(msg, packet) with SERVER_ECHO_ALL unset
on_json(files, clock, msg) ==
    LET req_path == PathOrRoot(msg)
        rel == normalize_request_path(req_path)
        cand == secure_candidate(files, HtmlRoot, rel)
        r == fragment_html_file(files, cand.path)
    IN IF TypeOf(msg) # "GET" THEN Emit(<<>>)
       ELSE IF ~cand.ok
            THEN Emit(<<Server3Status(req_path, <<"400: invalid path">>)>>)
       ELSE IF ~Exists(files, cand.path)
            THEN Emit(<<Server3Status(req_path, NotFoundData(req_path))>>)
       ELSE IF r.err # ""
            THEN Emit(<<Server3Status(req_path, <<"500: read error">>)>>)
       ELSE Emit(send_fragments(clock, req_path, r.frags))

\* listener.start_listener._on_receive(packet) with callback = on_json
listener_on_receive(files, clock, packet) ==
    LET j == JsonLoads(packet.text)
    IN IF packet.text.kind = "none" THEN Emit(<<>>)
       ELSE IF ~j.ok THEN Emit(<<>>)
       ELSE on_json(files, clock, j.obj)

----------------------------------------------------------------------------
(* FragSpec: fragment_html_file applied to every content up to MaxLen *)

NoResult == [err |-> "pending", frags |-> <<>>]

NoPacket == [fromId |-> "", portnum |-> "", text |-> NoText]

\* no handling yet
NoHandling == [entry |-> "", rx |-> NoPacket, tx |-> <<>>, raised |-> FALSE]

RespIdle ==
    /\ entry = ""
    /\ rx = NoPacket
    /\ tx = <<>>
    /\ raised = FALSE
    /\ send_failed = {}

NotSaved == [written |-> FALSE, html |-> <<>>]

\* start_client was not called before
NoCall == [calls |-> 0, path |-> <<>>, seen |-> {}, at |-> 0]

\* client2: self.buffers = {}
NoBuffers == [has |-> FALSE, total |-> 0, frags |-> <<>>]

\* receive hooks start_client attaches: iface.onReceive and the first pubsub
\* topic (the topics meshtastic.receive.text and .data call the same
\* _handle_raw)
Hooks == {"iface.onReceive", "meshtastic.receive"}

IdleHook == [pc |-> "idle", msg |-> NoDict]

\* no callback is running and the retry loop has not been entered
ThreadIdle ==
    /\ lock = ""
    /\ hooks = [h \in Hooks |-> IdleHook]
    /\ ppc = "while"
    /\ missing = <<>>

\* no client has been started and nothing is in flight
ClientIdle ==
    /\ client = ""
    /\ server = ""
    /\ client_path = <<>>
    /\ cpc = "init"
    /\ seen_ids = {}
    /\ received_fragments = <<>>
    /\ complete = FALSE
    /\ saved = NotSaved
    /\ key = <<>>
    /\ waited = 0
    /\ net_get = {}
    /\ net_resp = {}
    /\ client_tx = <<>>
    /\ tx_failed = {}
    /\ now = 0
    /\ earlier = NoHandling
    /\ delivered = <<>>
    /\ buffers = NoBuffers
    /\ previous = NoCall
    /\ ThreadIdle

FragInit ==
    /\ fs \in {MakeFs(c) : c \in AllContents}
    /\ pc = "idle"
    /\ filepath = <<>>
    /\ fragments = NoResult
    /\ my_id = ""
    /\ RespIdle
    /\ ClientIdle

CallFragment ==
    /\ pc = "idle"
    /\ \E p \in {FileA, <<"html", "/", "x">>, HtmlDir} :
          /\ filepath' = p
          /\ fragments' = fragment_html_file(fs, p)
    /\ pc' = "returned"
    /\ UNCHANGED <<asmVars, threadVars, client_tx, tx_failed, now, earlier, fs, my_id, respVars, server, clientVars, netVars>>

FragNext == CallFragment

FragSpec == FragInit /\ [][FragNext]_vars

\* fragment_html_file returned a chunk list for html/a
Fragmented == pc = "returned" /\ filepath = FileA /\ fragments.err = ""

Ceil(a, b) == (a + b - 1) \div b

\* C2: round trip: the chunks returned for a content C, concatenated in
\* order, give back exactly C.
C2_RoundTrip == Fragmented => Join(fragments.frags) = fs[FileA]

C2_Witness ==
    /\ Fragmented
    /\ Len(fragments.frags) = 3
    /\ Join(fragments.frags) = Content(MaxLen, 1)

\* C3: fragmenting an empty content returns exactly one chunk, the empty
\* string.
C3_EmptyOneChunk ==
    (Fragmented /\ fs[FileA] = <<>>) => fragments.frags = << <<>> >>

\* C4: a content of length L > 0 gives ceil(L/122) chunks, every chunk but
\* the last of length exactly 122, the last of length 1..122.
C4_ChunkLengths ==
    (Fragmented /\ Len(fs[FileA]) > 0) =>
        LET fr == fragments.frags
            n == Len(fr)
        IN /\ n = Ceil(Len(fs[FileA]), ChunkSize)
           /\ \A k \in 1..(n - 1) : Len(fr[k]) = ChunkSize
           /\ Len(fr[n]) >= 1
           /\ Len(fr[n]) <= ChunkSize

C4_Witness ==
    /\ Fragmented
    /\ Len(fs[FileA]) = 300
    /\ [k \in 1..Len(fragments.frags) |-> Len(fragments.frags[k])]
          = <<122, 122, 56>>

----------------------------------------------------------------------------
(* RespSpec: each Responder entry point applied to one inbound packet *)

PathA == <<"/", "a">>

PathX == <<"/", "x">>

\* "/../s": a path that leaves the HTML root through ".."
PathUp == <<"/", "..", "/", "s">>

\* "/../htmlx/s": a path into the sibling directory htmlx
PathSibling == <<"/", "..", "/", "html", "x", "/", "s">>

\* request paths: none, "", "/a", "/x" (no such file), "/", "a", "/html/a",
\* "/../s", "/../htmlx/s"
ReqPathOptions ==
    {[has |-> FALSE, v |-> <<>>]} \cup
    {[has |-> TRUE, v |-> p] :
        p \in {<<>>, PathA, PathX, <<"/">>, <<"a">>, <<"/", "html", "/", "a">>,
               PathUp, PathSibling}}

\* request frag: none, a non-integer, or an integer
ReqFragOptions ==
    {[has |-> FALSE, bad |-> FALSE, v |-> 0], [has |-> TRUE, bad |-> TRUE, v |-> 0]} \cup
    {[has |-> TRUE, bad |-> FALSE, v |-> k] : k \in {-1, 0, 1, 2, 3, 4, 7}}

ReqTypes == {"GET", "RESP", "PING", "None"}

ReqDict(t, po, fo) ==
    [keys |-> (IF t # "None" THEN {"type"} ELSE {})
                \cup (IF po.has THEN {"path"} ELSE {})
                \cup (IF fo.has THEN {"frag"} ELSE {}),
     bad |-> IF fo.bad THEN {"frag"} ELSE {},
     frac |-> {},
     type |-> IF t = "None" THEN "" ELSE t,
     path |-> po.v, frag |-> fo.v, of_frag |-> 0, of |-> 0, data |-> <<>>, ts |-> 0]

ReqDicts == {ReqDict(t, po, fo) : t \in ReqTypes, po \in ReqPathOptions, fo \in ReqFragOptions}

\* inbound packets: every request from the client as JSON text, a plain
\* text, a stamped GET, a packet of another port, a packet of the server's own
InboundPackets ==
    {TextPacket(ClientNodeId, JsonText(d)) : d \in ReqDicts} \cup
    {TextPacket(ClientNodeId, PlainText),
     TextPacket(ClientNodeId, [JsonText(GetDict(PathA)) EXCEPT !.stamp = TRUE]),
     [fromId |-> ClientNodeId, portnum |-> "POSITION_APP", text |-> NoText],
     TextPacket(ServerNodeId, JsonText(GetDict(PathA)))}

RespInit ==
    /\ fs \in {MakeFs(c) : c \in BoundaryContents}
    /\ pc = "idle"
    /\ filepath = <<>>
    /\ fragments = NoResult
    /\ my_id = ""
    /\ RespIdle
    /\ ClientIdle

\* the handler named e ran on packet p and emitted h
Handled(e, p, h) ==
    /\ entry' = e
    /\ rx' = p
    /\ tx' = h.out
    /\ raised' = h.raised
    /\ send_failed' = {}
    /\ pc' = "handled"
    /\ UNCHANGED <<asmVars, threadVars, client_tx, tx_failed, now, earlier, fs, fragVars, my_id, server, clientVars, netVars>>

HandleGetMessage ==
    /\ pc = "idle"
    /\ \E p \in InboundPackets :
          Handled("handle_get_message", p, handle_get_message(fs, p))

HandleMessage ==
    /\ pc = "idle"
    /\ \E p \in InboundPackets :
          Handled("handle_message", p, handle_message(fs, my_id, p))

Server2HandlePacket ==
    /\ pc = "idle"
    /\ \E p \in InboundPackets :
          Handled("handle_packet", p, handle_packet(fs, my_id, p))

Server3OnJson ==
    /\ pc = "idle"
    /\ \E p \in InboundPackets :
          Handled("on_json", p, listener_on_receive(fs, now, p))

\* start_server / server2 main: the node id is read from localNode.myInfo
DiscoverNodeId ==
    /\ pc = "idle"
    /\ my_id = ""
    /\ my_id' = ServerNodeId
    /\ UNCHANGED <<asmVars, threadVars, client_tx, tx_failed, now, earlier, fs, pc, fragVars, respVars, server, clientVars, netVars>>

\* a second passes on the server's clock
Tick ==
    /\ now < MaxClock
    /\ now' = now + 1
    /\ UNCHANGED <<asmVars, threadVars, client_tx, tx_failed, earlier, fs, pc, fragVars, my_id,
                   respVars, server, clientVars, netVars>>

\* the handler has returned; the server waits for the next packet
ServerIdle ==
    /\ pc = "handled"
    /\ pc' = "idle"
    /\ entry' = ""
    /\ rx' = NoPacket
    /\ tx' = <<>>
    /\ raised' = FALSE
    /\ send_failed' = {}
    /\ UNCHANGED <<asmVars, threadVars, client_tx, tx_failed, now, earlier, fs, fragVars, my_id, server, clientVars, netVars>>

RespNext ==
    \/ HandleGetMessage
    \/ HandleMessage
    \/ Server2HandlePacket
    \/ Server3OnJson
    \/ DiscoverNodeId
    \/ Tick
    \/ ServerIdle

RespSpec == RespInit /\ [][RespNext]_vars

----------------------------------------------------------------------------
(* Responder claims, read off the last handled packet *)

Req == rx.text.obj

\* the handler was given a GET from the client as unstamped JSON text
IsGet ==
    /\ pc = "handled"
    /\ rx.fromId = ClientNodeId
    /\ rx.portnum = "TEXT_MESSAGE_APP"
    /\ JsonLoads(rx.text).ok
    /\ TypeOf(Req) = "GET"

\* the GET names a path
HasPath == Has(Req, "path") /\ Req.path # <<>>

\* the file the entry point e looks up for a request path
ResolvedFile(e, path) ==
    IF e = "handle_packet" THEN Resolve(Server2FsPath(path))
    ELSE IF e = "on_json"
         THEN secure_candidate(fs, HtmlRoot, normalize_request_path(path)).path
    ELSE Resolve(HtmlPath(path))

\* server3 refuses the request path as a traversal
Rejected ==
    entry = "on_json" /\ ~secure_candidate(fs, HtmlRoot, normalize_request_path(Req.path)).ok

Resolvable == HasPath /\ ~Rejected /\ ResolvedFile(entry, Req.path) \in DOMAIN fs

NotFound ==
    /\ HasPath
    /\ ~Rejected
    /\ OpenRead(fs, ResolvedFile(entry, Req.path)).err = "FileNotFoundError"

ResourceBody == fs[ResolvedFile(entry, Req.path)]

\* the number of chunks of the requested resource
NumChunks == Ceil(Len(ResourceBody), ChunkSize)

\* the total a RESP envelope announces, under whichever key carries it
Total(env) == IF Has(env, "of") THEN env.of ELSE env.of_frag

\* what entry point e does with packet p
EntryResult(e, p) ==
    IF e = "handle_get_message" THEN handle_get_message(fs, p)
    ELSE IF e = "handle_message" THEN handle_message(fs, my_id, p)
    ELSE IF e = "handle_packet" THEN handle_packet(fs, my_id, p)
    ELSE listener_on_receive(fs, now, p)

\* what entry point e emits for packet p
EntryOut(e, p) == EntryResult(e, p).out

\* the same GET without its frag key
WithoutFrag(p) ==
    [p EXCEPT !.text.obj.keys = @ \ {"frag"}, !.text.obj.bad = {}, !.text.obj.frag = 0]

IntFrag == Has(Req, "frag") /\ "frag" \notin Req.bad

\* C5: a whole-resource GET on a resolvable path is answered, in order, by
\* one RESP per chunk with frag = 1, 2, ..., of, each carrying the requested
\* path, the chunk and the same of = number of chunks; so 1 <= frag <= of.
C5_WholeResponse ==
    (IsGet /\ Resolvable /\ ~Has(Req, "frag")) =>
        /\ ~raised
        /\ Len(tx) = NumChunks
        /\ Join([k \in 1..Len(tx) |-> tx[k].data]) = ResourceBody
        /\ \A k \in 1..Len(tx) :
              /\ TypeOf(tx[k]) = "RESP"
              /\ tx[k].path = Req.path
              /\ tx[k].frag = k
              /\ Total(tx[k]) = NumChunks
              /\ 1 <= tx[k].frag
              /\ tx[k].frag <= Total(tx[k])

C5_Witness ==
    /\ IsGet
    /\ Resolvable
    /\ ~Has(Req, "frag")
    /\ entry = "handle_message"
    /\ Len(tx) = 3
    /\ tx[3].frag = 3

\* C6: a GET with frag = k, 1 <= k <= total, on a resolvable path is answered
\* by exactly one RESP, the k-th envelope of the full response.
C6_SingleFragment ==
    (IsGet /\ Resolvable /\ IntFrag /\ 1 <= Req.frag /\ Req.frag <= NumChunks) =>
        tx = <<EntryOut(entry, WithoutFrag(rx))[Req.frag]>>

\* C7: a GET whose frag is out of range (frag < 1 or frag > total) is
\* answered by no envelope at all.
C7_OutOfRangeSilent ==
    (IsGet /\ Resolvable /\ IntFrag /\ (Req.frag < 1 \/ Req.frag > NumChunks)) =>
        tx = <<>>

\* C8: a GET whose path cannot be resolved is answered by exactly one RESP
\* with of = 1, frag = 1, the requested path and a not-found text.
C8_NotFoundResp ==
    (IsGet /\ NotFound) =>
        /\ Len(tx) = 1
        /\ TypeOf(tx[1]) = "RESP"
        /\ tx[1].path = Req.path
        /\ tx[1].frag = 1
        /\ Total(tx[1]) = 1
        /\ \E i \in 1..Len(tx[1].data) : tx[1].data[i] = " not found"

\* the handler was given a text frame from the client that is no GET: a
\* RESP, an unknown type, an object without type, or text that is not JSON
NonGetFrame ==
    /\ pc = "handled"
    /\ rx.fromId = ClientNodeId
    /\ rx.portnum = "TEXT_MESSAGE_APP"
    /\ ~rx.text.stamp
    /\ \/ rx.text.kind = "plain"
       \/ rx.text.kind = "json" /\ TypeOf(Req) # "GET"

\* C9: nothing is emitted in response to an inbound frame whose type is not
\* GET.
C9_NonGetSilent == NonGetFrame => tx = <<>>

\* C10: a GET whose path is missing or empty is ignored: no envelope is
\* emitted for it.
C10_NoPathIgnored == (IsGet /\ ~HasPath) => tx = <<>>

----------------------------------------------------------------------------
(* client.py *)

\* _to_int(m.get(k), default): int(x) truncates a float towards zero and
\* raises on None or a text that is not a number
_to_int(m, k, default) ==
    IF ~Has(m, k) \/ k \in m.bad THEN default
    ELSE IF k \in m.frac /\ m[k] < 0 THEN m[k] + 1
    ELSE m[k]

\* mutant: the path test is left out
PathDiffersNever(message, path) == FALSE

\* message.get("path") != path
PathDiffers(message, path) == ~(Has(message, "path") /\ message.path = path)

\* mutant: the signature is not recorded
SeenAddDropped(seen, msg_id) == seen

\* seen_ids.add(msg_id)
SeenAdd(seen, msg_id) == seen \cup {msg_id}

\* m.get("data", "")
DataOf(m) == IF Has(m, "data") THEN m.data ELSE <<>>

\* a slot of a fragment list: None, or the data stored
NoneSlot == [some |-> FALSE, v |-> <<>>]

SomeSlot(data) == [some |-> TRUE, v |-> data]

\* a dict from (path, total) to a fragment list, as the sequence of its
\* entries in insertion order; IndexOfKey is 0 when the key is absent
IndexOfKey(d, k) ==
    IF \E i \in 1..Len(d) : d[i].key = k
    THEN CHOOSE i \in 1..Len(d) : d[i].key = k
    ELSE 0

\* d.setdefault(k, [None] * total)
SetDefault(d, k, total) ==
    IF IndexOfKey(d, k) # 0 THEN d
    ELSE Append(d, [key |-> k, slots |-> [i \in 1..total |-> NoneSlot]])

\* mutant: the slot index is frag_no counted from the end
StoreFragmentReversed(frag_list, frag_no, data) ==
    [frag_list EXCEPT ![Len(frag_list) + 1 - frag_no] = SomeSlot(data)]

\* frag_index = frag_no - 1; frag_list[frag_index] = data  (the list is
\* 0-based in the code, 1-based here)
StoreFragment(frag_list, frag_no, data) ==
    [frag_list EXCEPT ![(frag_no - 1) + 1] = SomeSlot(data)]

\* sum(1 for x in frag_list if x is not None)
Have(frag_list) == Cardinality({i \in 1..Len(frag_list) : frag_list[i].some})

RECURSIVE MissingFrom(_, _)
\* [i+1 for i, v in enumerate(frag_list) if v is None], from index i on
MissingFrom(frag_list, i) ==
    IF i > Len(frag_list) THEN <<>>
    ELSE (IF frag_list[i].some THEN <<>> ELSE <<i>>) \o MissingFrom(frag_list, i + 1)

\* mutant: every index is reported missing
MissingEveryIndex(frag_list) == [i \in 1..Len(frag_list) |-> i]

Missing(frag_list) == MissingFrom(frag_list, 1)

\* ''.join(frag_list) / ''.join(x or '' for x in buf)
JoinSlots(frag_list) == Join([i \in 1..Len(frag_list) |-> frag_list[i].v])

\* the reassembly state a receive handler reads and writes
ClientState ==
    [seen |-> seen_ids, rf |-> received_fragments, complete |-> complete, saved |-> saved]

\* start_client.handle_response(message), path being start_client's argument
handle_response(st, path, message) ==
    LET total == _to_int(message, "of_frag", 0)
        frag_no == _to_int(message, "frag", 0)
        msg_id == <<message.path, total, frag_no, Len(DataOf(message))>>
        k == <<message.path, total>>
        d == SetDefault(st.rf, k, total)
        idx == IndexOfKey(d, k)
        frag_list == StoreFragment(d[idx].slots, frag_no, DataOf(message))
    IN IF TypeOf(message) # "RESP" THEN st
       ELSE IF PathDiffers(message, path) THEN st
       ELSE IF total <= 0 \/ frag_no <= 0 \/ frag_no > total THEN st
       ELSE IF msg_id \in st.seen THEN st
       ELSE [seen |-> SeenAdd(st.seen, msg_id),
             rf |-> [d EXCEPT ![idx].slots = frag_list],
             complete |-> st.complete \/ Have(frag_list) = total,
             saved |-> IF Have(frag_list) = total
                       THEN [written |-> TRUE, html |-> JoinSlots(frag_list)]
                       ELSE st.saved]

\* start_client._handle_raw(raw)
_handle_raw(st, path, raw) ==
    LET c == _coerce_to_dict(raw)
    IN IF ~c.ok THEN st ELSE handle_response(st, path, c.payload)

\* send_get_request(radio, path, frag): the text handed to the radio;
\* frag is <<>> for None and <<k>> for k
send_get_request(path, frag) ==
    IF frag = <<>> THEN JsonText(GetDict(path))
    ELSE JsonText(GetFragDict(path, frag[1]))

\* mutant: a failed send raises out of _send_text
_send_text_raising(text, fails) == [sent |-> ~fails, raised |-> fails]

\* _send_text(r, text): radio.send, then iface.sendText as the fallback, each
\* in its own try/except; fails = both attempts raise. The exception is
\* printed and never leaves the function.
_send_text(text, fails) == [sent |-> ~fails, raised |-> FALSE]

\* publisher._send_text_core(radio, text) as client3 uses it through
\* send_json: the fallback iface.sendText is outside any try
_send_text_core(text, fails) == [sent |-> ~fails, raised |-> fails]

\* "for frag in missing: send_get_request(radio, path, frag=frag)" over the
\* texts of one round; failing = the indexes whose transport send fails. A
\* raise ends the loop at that index.
SendLoop(texts, failing) ==
    LET R == {i \in failing : _send_text(texts[i], TRUE).raised}
        n == IF R = {} THEN Len(texts) ELSE CHOOSE i \in R : \A j \in R : i <= j
    IN [handed |-> SubSeq(texts, 1, n),
        sent |-> {texts[i] : i \in (1..n) \ failing},
        failed |-> {texts[i] : i \in (1..n) \cap failing},
        raised |-> R # {}]

----------------------------------------------------------------------------
(* client3.py and subscriber.py *)

\* _normalize_path(p) for a path without blanks; CLIENT_DEFAULT_PATH unset
_normalize_path(p) ==
    IF p = <<>> THEN <<"/", "index", ".html">>
    ELSE IF ~StartsWith(p, <<"/">>) THEN <<"/">> \o p
    ELSE p

Remove(d, idx) == SubSeq(d, 1, idx - 1) \o SubSeq(d, idx + 1, Len(d))

\* FragmentAssembler.add(msg) followed by the rest of main.on_json: st.rf is
\* _bykey, st.seen is _seen
assembler_add(st, msg) ==
    LET path == IF Has(msg, "path") THEN msg.path ELSE <<>>
        total == _to_int(msg, "of_frag", 0)
        frag == _to_int(msg, "frag", 0)
        data == DataOf(msg)
        k == <<path, total>>
        sig == <<path, total, frag, Len(data)>>
        d == SetDefault(st.rf, k, total)
        idx == IndexOfKey(d, k)
        buf == StoreFragment(d[idx].slots, frag, data)
    IN IF TypeOf(msg) # "RESP" THEN st
       ELSE IF path = <<>> \/ total <= 0 \/ frag <= 0 \/ frag > total THEN st
       ELSE IF sig \in st.seen THEN st
       ELSE IF Have(buf) = total
            THEN [seen |-> SeenAdd(st.seen, sig),
                  rf |-> Remove(d, idx),
                  complete |-> TRUE,
                  saved |-> [written |-> TRUE, html |-> JoinSlots(buf)]]
       ELSE [seen |-> SeenAdd(st.seen, sig),
             rf |-> [d EXCEPT ![idx].slots = buf],
             complete |-> st.complete,
             saved |-> st.saved]

\* client3 main.on_json(msg, packet)
client3_on_json(st, path, msg) ==
    IF TypeOf(msg) # "RESP" THEN st
    ELSE IF PathDiffers(msg, path) THEN st
    ELSE assembler_add(st, msg)

\* start_listener._handle: txt = _payload_text(packet); body = txt[4:] if
\* txt.startswith("MH1 ") else txt; js = json.loads(body)
subscriber_loads(packet) ==
    IF packet.text.kind = "none" THEN [ok |-> FALSE, payload |-> NoDict]
    ELSE LET j == JsonLoads([packet.text EXCEPT !.stamp = FALSE])
         IN [ok |-> j.ok, payload |-> j.obj]

\* subscriber.start_listener._handle(packet) with callback = client3's
\* on_json: the stamp is stripped before json.loads; the ANY event and the
\* TEXT pass-through are dicts whose type is not RESP
subscriber_handle(st, path, packet) ==
    LET j == subscriber_loads(packet)
    IN IF packet.text.kind = "none" THEN st
       ELSE IF ~j.ok THEN st
       ELSE client3_on_json(st, path, j.payload)

----------------------------------------------------------------------------
(* Spec: one client and one server on the shared channel.  A text stays in *)
(* flight until it is lost, so it can be delivered late, more than once    *)
(* (each client hooks several receive callbacks) and in any order.         *)

\* contents of html/a: empty, two fragments, three fragments
ChannelContents == {Content(L, 1) : L \in {0, ChunkSize + 1, MaxLen}}

\* the paths the user asks for
UserPaths == {PathA, PathX, <<"a">>}

Init ==
    /\ fs \in {MakeFs(c) : c \in ChannelContents}
    /\ pc = "idle"
    /\ filepath = <<>>
    /\ fragments = NoResult
    /\ my_id = ServerNodeId
    /\ RespIdle
    /\ client \in {"client", "client3"}
    /\ server \in {"handle_message", "handle_packet", "on_json"}
    /\ client_path = <<>>
    /\ cpc = "init"
    /\ seen_ids = {}
    /\ received_fragments = <<>>
    /\ complete = FALSE
    /\ saved = NotSaved
    /\ key = <<>>
    /\ waited = 0
    /\ net_get = {}
    /\ net_resp = {}
    /\ client_tx = <<>>
    /\ tx_failed = {}
    /\ now = 0
    /\ earlier = NoHandling
    /\ delivered = <<>>
    /\ buffers = NoBuffers
    /\ previous = NoCall
    /\ ThreadIdle

\* mutant: the initial GET is sent in the quick path and again after the wait
InitialGetTwice(text, fails, fails2) ==
    [handed |-> <<text, text>>, sent |-> {text}, failed |-> {}, raised |-> FALSE]

\* the initial GET. client.py: send_get_request inside "try ... except
\* Exception: pass"; when that raised, sent_initial stays False and the GET is
\* sent again after the wait, outside any try (fails2 = that send fails).
\* client3: one send_json, outside any try.
InitialGet(text, fails, fails2) ==
    IF client = "client3"
    THEN LET r == _send_text_core(text, fails)
         IN [handed |-> <<text>>, sent |-> IF r.sent THEN {text} ELSE {},
             failed |-> IF r.sent THEN {} ELSE {text}, raised |-> r.raised]
    ELSE LET r == _send_text(text, fails)
             r2 == _send_text(text, fails2)
         IN IF ~r.raised
            THEN [handed |-> <<text>>, sent |-> IF r.sent THEN {text} ELSE {},
                  failed |-> IF r.sent THEN {} ELSE {text}, raised |-> FALSE]
            ELSE [handed |-> <<text, text>>, sent |-> IF r2.sent THEN {text} ELSE {},
                  failed |-> {text}, raised |-> r2.raised]

\* start_client(radio, path) up to the retry loop / client3 main up to its
\* wait loop: fresh seen_ids and completion event, the initial GET is sent
ClientStart ==
    /\ cpc = "init"
    /\ \E p \in UserPaths, fails \in BOOLEAN, fails2 \in BOOLEAN :
          LET path == IF client = "client3" THEN _normalize_path(p) ELSE p
              text == send_get_request(path, <<>>)
              r == InitialGet(text, fails, fails2)
          IN /\ client_path' = path
             /\ net_get' = net_get \cup r.sent
             /\ client_tx' = r.handed
             /\ tx_failed' = r.failed
             /\ cpc' = IF r.raised THEN "crashed" ELSE "waiting"
    /\ seen_ids' = {}
    /\ complete' = FALSE
    /\ key' = <<>>
    /\ waited' = 0
    /\ UNCHANGED <<asmVars, threadVars, now, earlier, fs, pc, fragVars, my_id, respVars, server, client,
                   received_fragments, saved, net_resp>>

\* the server's receive callback runs on a GET text heard on the channel and
\* transmits every envelope it emits
ServerReceive ==
    /\ \E t \in net_get :
          LET out == EntryOut(server, TextPacket(ClientNodeId, t))
          IN net_resp' = net_resp \cup {JsonText(out[i]) : i \in 1..Len(out)}
    /\ UNCHANGED <<asmVars, threadVars, client_tx, tx_failed, now, earlier, fs, pc, fragVars, my_id, respVars, server, clientVars, net_get>>

\* the state after the client's receive callback ran on a packet
ClientHandle(packet) ==
    IF client = "client3" THEN subscriber_handle(ClientState, client_path, packet)
    ELSE _handle_raw(ClientState, client_path, packet)

\* a receive callback of the client runs on a text heard on the channel
\* (client.py keeps its callbacks after start_client returned; client3
\* closes the interface once its wait loop has ended)
ClientReceive ==
    /\ cpc = "waiting" \/ (cpc = "done" /\ client = "client")
    /\ \E t \in net_resp :
          LET st == ClientHandle(TextPacket(ServerNodeId, t))
          IN /\ seen_ids' = st.seen
             /\ received_fragments' = st.rf
             /\ complete' = st.complete
             /\ saved' = st.saved
    /\ UNCHANGED <<asmVars, threadVars, client_tx, tx_failed, now, earlier, fs, pc, fragVars, my_id, respVars, server, client,
                   client_path, cpc, key, waited, netVars>>

\* the key the retry loop holds after its "if key is None" step
PollKey == IF key = <<>> /\ received_fragments # <<>> THEN received_fragments[1].key ELSE key

\* the missing list the retry loop computes for its key
PollMissing ==
    IF PollKey = <<>> THEN <<>>
    ELSE Missing(received_fragments[IndexOfKey(received_fragments, PollKey)].slots)

\* mutant: the timeout test is left out
RetryDueAlways(missing_list, elapsed) == missing_list # <<>>

\* if missing and (time.time() - start) > timeout:
RetryDue(missing_list, elapsed) == missing_list # <<>> /\ elapsed > Timeout

\* the GET texts of one retry round, in the order of the missing list
RoundTexts ==
    [i \in 1..Len(PollMissing) |-> send_get_request(client_path, <<PollMissing[i]>>)]

\* one iteration of start_client's "while not complete.is_set()" loop (for
\* client3: of "while not complete_evt.wait(timeout=0.5)")
ClientPoll ==
    /\ cpc = "waiting"
    /\ IF complete
       THEN /\ cpc' = "done"
            /\ client_tx' = <<>>
            /\ tx_failed' = {}
            /\ UNCHANGED <<key, waited, net_get>>
       ELSE IF client = "client3"
       THEN /\ client_tx' = <<>>
            /\ tx_failed' = {}
            /\ UNCHANGED <<cpc, key, waited, net_get>>
       ELSE /\ key' = PollKey
            /\ IF RetryDue(PollMissing, Min(waited + 1, Timeout + 1))
               THEN \E failing \in SUBSET (1..Len(PollMissing)) :
                       LET r == SendLoop(RoundTexts, failing)
                       IN /\ client_tx' = r.handed
                          /\ tx_failed' = r.failed
                          /\ net_get' = net_get \cup r.sent
                          /\ IF r.raised
                             THEN /\ cpc' = "crashed"
                                  /\ waited' = Min(waited + 1, Timeout + 1)
                             ELSE /\ cpc' = cpc
                                  /\ waited' = 0
               ELSE /\ client_tx' = <<>>
                    /\ tx_failed' = {}
                    /\ cpc' = cpc
                    /\ net_get' = net_get
                    /\ waited' = Min(waited + 1, Timeout + 1)
    /\ UNCHANGED <<asmVars, threadVars, now, earlier, fs, pc, fragVars, my_id, respVars, server, client,
                   client_path, seen_ids, received_fragments, complete, saved, net_resp>>

\* the transport drops a text
LoseGet ==
    /\ \E t \in net_get : net_get' = net_get \ {t}
    /\ UNCHANGED <<asmVars, threadVars, client_tx, tx_failed, now, earlier, fs, pc, fragVars, my_id, respVars, server, clientVars, net_resp>>

LoseResp ==
    /\ \E t \in net_resp : net_resp' = net_resp \ {t}
    /\ UNCHANGED <<asmVars, threadVars, client_tx, tx_failed, now, earlier, fs, pc, fragVars, my_id, respVars, server, clientVars, net_get>>

Next ==
    \/ ClientStart
    \/ ServerReceive
    \/ ClientReceive
    \/ ClientPoll
    \/ LoseGet
    \/ LoseResp

Spec == Init /\ [][Next]_vars

\* the retry loop is the main thread of start_client: it sleeps half a second
\* and runs again for as long as the process lives
LiveSpec == Spec /\ WF_vars(ClientPoll)

\* the file the server looks up for the pending request
ServedFile == ResolvedFile(server, client_path)

\* C1: whenever the client reports completion for a path, the assembled
\* content is the concatenation in index order of the chunks the server
\* produced for that path: the resource body (for a path the server cannot
\* resolve, the text of its single not-found RESP).
C1_CompleteIsBody ==
    saved.written =>
        /\ complete
        /\ ServedFile \in DOMAIN fs => saved.html = fs[ServedFile]
        /\ ServedFile \notin DOMAIN fs => saved.html = NotFoundData(client_path)

\* the three-fragment body was reassembled after a retry round asked for a
\* missing fragment
C1_Witness ==
    /\ saved.written
    /\ complete
    /\ ServedFile \in DOMAIN fs
    /\ Len(saved.html) >= 2 * ChunkSize + 1
    /\ saved.html = fs[ServedFile]
    /\ \E t \in net_get : Has(t.obj, "frag")

----------------------------------------------------------------------------
(* AsmSpec: the client's receive callback applied to sequences of packets   *)
(* heard on the channel, whatever their sender                              *)

\* number of packets handed to the receive callback
MaxDeliveries == 4

\* the body whose fragments are on the channel
AsmBody == Content(MaxLen, 1)

\* one complete fragment set: the envelopes server.py builds for AsmBody
FragSet == create_response_envelopes(PathA, SplitContent(AsmBody))

\* frames with of <= 0, frag <= 0, frag > of, a text or a float for a number
MalformedFrames ==
    {[FragSet[1] EXCEPT !.of_frag = 0],
     [FragSet[1] EXCEPT !.frag = 0],
     [FragSet[1] EXCEPT !.frag = -1],
     [FragSet[3] EXCEPT !.frag = 4],
     [FragSet[1] EXCEPT !.bad = {"frag"}],
     [FragSet[1] EXCEPT !.bad = {"of_frag"}],
     [FragSet[3] EXCEPT !.frac = {"frag"}]}

\* frames of another type or another path
ForeignFrames ==
    {[FragSet[1] EXCEPT !.type = "GET"],
     [FragSet[1] EXCEPT !.path = PathX],
     [FragSet[1] EXCEPT !.keys = @ \ {"path"}]}

\* other transmissions for the same path: fragment 1 with other data of the
\* same length, fragment 3 with shorter data, a one-fragment response
OtherFrames ==
    {[FragSet[1] EXCEPT !.data = FragSet[2].data],
     [FragSet[3] EXCEPT !.data = <<"z">>],
     RespEnvelope(PathA, 1, 1, <<"z">>)}

\* publisher._stamp_text(text) with PUBLISHER_STAMP on: "MH1 " + text
_stamp_text(text) == [text EXCEPT !.stamp = TRUE]

AsmTexts ==
    {JsonText(FragSet[k]) : k \in 1..Len(FragSet)} \cup
    {JsonText(d) : d \in MalformedFrames \cup ForeignFrames \cup OtherFrames} \cup
    {_stamp_text(JsonText(FragSet[2])), PlainText}

AsmInit ==
    /\ fs = MakeFs(AsmBody)
    /\ pc = "idle"
    /\ filepath = <<>>
    /\ fragments = NoResult
    /\ my_id = ServerNodeId
    /\ RespIdle
    /\ client \in {"client", "client3"}
    /\ server = ""
    /\ client_path = <<>>
    /\ cpc = "init"
    /\ seen_ids = {}
    /\ received_fragments = <<>>
    /\ complete = FALSE
    /\ saved = NotSaved
    /\ key = <<>>
    /\ waited = 0
    /\ net_get = {}
    /\ net_resp = {}
    /\ client_tx = <<>>
    /\ tx_failed = {}
    /\ now = 0
    /\ earlier = NoHandling
    /\ delivered = <<>>
    /\ buffers = NoBuffers
    /\ previous = NoCall
    /\ ThreadIdle

\* a receive hook of the client is called with a packet
Deliver ==
    /\ cpc = "waiting"
    /\ Len(delivered) < MaxDeliveries
    /\ \E t \in AsmTexts :
          LET packet == TextPacket(ServerNodeId, t)
              st == ClientHandle(packet)
          IN /\ delivered' = Append(delivered, packet)
             /\ seen_ids' = st.seen
             /\ received_fragments' = st.rf
             /\ complete' = st.complete
             /\ saved' = st.saved
    /\ UNCHANGED <<buffers, previous, threadVars, client_tx, tx_failed, now, earlier, fs, pc, fragVars, my_id, respVars, server,
                   client, client_path, cpc, key, waited, netVars>>

\* the client is started for the path of FragSet
AsmStart == ClientStart /\ client_path' = PathA /\ tx_failed' = {}

AsmNext ==
    \/ AsmStart
    \/ Deliver

AsmSpec == AsmInit /\ [][AsmNext]_vars

\* the packet carrying envelope d as unstamped JSON text
FramePacket(d) == TextPacket(ServerNodeId, JsonText(d))

\* the 1-based indices of FragSet delivered so far
DeliveredFrags == {k \in 1..Len(FragSet) : \E i \in 1..Len(delivered) : delivered[i] = FramePacket(FragSet[k])}

\* every packet delivered so far carries a fragment of FragSet, the pending
\* path being FragSet's
OnlyFragSet ==
    /\ client_path = PathA
    /\ \A i \in 1..Len(delivered) : \E k \in 1..Len(FragSet) : delivered[i] = FramePacket(FragSet[k])

\* C11: order independence: whatever the delivery order of one complete
\* fragment set, completion is reached exactly when the last distinct
\* fragment has been accepted, with the concatenation by index as content.
C11_OrderIndependence ==
    OnlyFragSet =>
        /\ complete <=> DeliveredFrags = 1..Len(FragSet)
        /\ complete => saved = [written |-> TRUE, html |-> AsmBody]
        /\ ~complete => saved = NotSaved

\* the set was delivered in the order 3, 1, 2
C11_Witness ==
    /\ OnlyFragSet
    /\ delivered = <<FramePacket(FragSet[3]), FramePacket(FragSet[1]), FramePacket(FragSet[2])>>
    /\ complete
    /\ saved.html = AsmBody

----------------------------------------------------------------------------
(* Reassembler claims, read off the packets delivered *)

\* the reassembly state: slots, seen signatures, completion, saved content
ReasmVars == <<seen_ids, received_fragments, complete, saved>>

\* what the running client's receive path decodes a packet to
ClientDecode(packet) ==
    IF client = "client3" THEN subscriber_loads(packet) ELSE _coerce_to_dict(packet)

\* the packet decodes to a RESP envelope
IsResp(packet) ==
    ClientDecode(packet).ok /\ TypeOf(ClientDecode(packet).payload) = "RESP"

\* the envelope's path is the path of the pending request
ForPendingPath(m) == Has(m, "path") /\ m.path = client_path

\* the value a numeric key holds on the wire
WireNumber(m, k) == <<Has(m, k), k \in m.bad, k \in m.frac, m[k]>>

\* the signature (path, of, frag, len(data)) of an envelope as sent
SigOf(m) ==
    <<Has(m, "path"), m.path, WireNumber(m, "of_frag"), WireNumber(m, "frag"), Len(DataOf(m))>>

\* a step in which a packet is delivered, and that packet
Delivery == delivered' # delivered

LastPacket == delivered'[Len(delivered')]

LastEnvelope == ClientDecode(LastPacket).payload

\* C12: idempotence of duplicate delivery: delivering a RESP whose signature
\* (path, of, frag, len(data)) was delivered before leaves slots, seen
\* signatures, completion status and saved content as they were.
C12_DuplicateIdempotent ==
    [][(/\ Delivery
        /\ IsResp(LastPacket)
        /\ \E i \in 1..Len(delivered) :
              /\ IsResp(delivered[i])
              /\ SigOf(ClientDecode(delivered[i]).payload) = SigOf(LastEnvelope))
       => UNCHANGED ReasmVars]_vars

\* fragment 1 was accepted, then a frame with the same signature and other
\* data was delivered
C12_Witness ==
    /\ client_path = PathA
    /\ Len(delivered) = 2
    /\ delivered[1] = FramePacket(FragSet[1])
    /\ delivered[2] = FramePacket([FragSet[1] EXCEPT !.data = FragSet[2].data])
    /\ Len(received_fragments) = 1
    /\ received_fragments[1].slots[1] = SomeSlot(FragSet[1].data)

\* twice the number a numeric key holds (a float is m[k] + 0.5)
Twice(m, k) == 2 * m[k] + (IF k \in m.frac THEN 1 ELSE 0)

NotNumber(m, k) == ~Has(m, k) \/ k \in m.bad

\* of <= 0, frag <= 0 or frag > of, or one of them is not a number
Malformed(m) ==
    \/ NotNumber(m, "of_frag")
    \/ NotNumber(m, "frag")
    \/ Twice(m, "of_frag") <= 0
    \/ Twice(m, "frag") <= 0
    \/ Twice(m, "frag") > Twice(m, "of_frag")

\* C13: a RESP for the pending path with of <= 0, frag <= 0 or frag > of
\* (values that are not integers included) changes nothing: no buffer, no
\* slot, no signature, no completion.
C13_MalformedRejected ==
    [][(/\ Delivery
        /\ IsResp(LastPacket)
        /\ ForPendingPath(LastEnvelope)
        /\ Malformed(LastEnvelope))
       => UNCHANGED ReasmVars]_vars

\* C14: an envelope whose type is not RESP, or whose path is not the path of
\* the pending request, leaves buffer, seen signatures and completion
\* status unchanged.
C14_ForeignIgnored ==
    [][(/\ Delivery
        /\ ClientDecode(LastPacket).ok
        /\ (TypeOf(LastEnvelope) # "RESP" \/ ~ForPendingPath(LastEnvelope)))
       => UNCHANGED ReasmVars]_vars

\* a fragment is buffered and the last three packets were of another type,
\* of another path and without path
C14_Witness ==
    /\ client_path = PathA
    /\ Len(delivered) = 4
    /\ delivered[1] = FramePacket(FragSet[2])
    /\ delivered[2] = FramePacket([FragSet[1] EXCEPT !.type = "GET"])
    /\ delivered[3] = FramePacket([FragSet[1] EXCEPT !.path = PathX])
    /\ delivered[4] = FramePacket([FragSet[1] EXCEPT !.keys = @ \ {"path"}])
    /\ Len(received_fragments) = 1
    /\ Have(received_fragments[1].slots) = 1

----------------------------------------------------------------------------
(* Retry Driver claims (Spec) *)

\* the 1-based indices whose slot is empty in the buffer of the pending path
EmptySlots ==
    UNION {{i \in 1..Len(received_fragments[b].slots) : ~received_fragments[b].slots[i].some} :
              b \in {c \in 1..Len(received_fragments) : received_fragments[c].key[1] = client_path}}

\* a retry round of start_client's loop: the retry clock is reset
RetryRound == waited' < waited

\* the frag values carried by the GETs the driver's step handed to the radio
SentFrags == {client_tx'[i].obj.frag : i \in {j \in 1..Len(client_tx') : Has(client_tx'[j].obj, "frag")}}

\* C15: gap-driven retry: the GETs of a retry round carry exactly the
\* indices whose slot is empty at that moment, one GET per missing index,
\* none for a filled index and none without frag.
C15_GapDrivenRetry ==
    [][RetryRound =>
          /\ \A i \in 1..Len(client_tx') :
                /\ TypeOf(client_tx'[i].obj) = "GET"
                /\ client_tx'[i].obj.path = client_path
                /\ Has(client_tx'[i].obj, "frag")
          /\ SentFrags = EmptySlots
          /\ Len(client_tx') = Cardinality(EmptySlots)]_vars

\* fragments 1 and 3 of three are buffered and the round asked for 2 only
C15_Witness ==
    /\ client = "client"
    /\ ~complete
    /\ Len(received_fragments) = 1
    /\ Len(received_fragments[1].slots) = 3
    /\ Missing(received_fragments[1].slots) = <<2>>
    /\ client_tx = <<send_get_request(client_path, <<2>>)>>
    /\ waited = 0

\* C16: when the retry timeout elapses while no reassembly buffer exists,
\* the driver re-sends the whole-resource GET (without frag) and no
\* fragment-specific GET.
C16_ResendWholeGet ==
    [][(/\ cpc = "waiting"
        /\ ~complete
        /\ received_fragments = <<>>
        /\ waited' > waited
        /\ waited' > Timeout)
       => client_tx' = <<send_get_request(client_path, <<>>)>>]_vars

----------------------------------------------------------------------------
(* ThreadSpec: client.py with its threads.  The receive hooks run            *)
(* handle_response statement by statement, the main thread runs the retry    *)
(* loop of start_client statement by statement; the hooks take the lock,     *)
(* the retry loop does not.                                                  *)

ThreadInit ==
    /\ fs = MakeFs(AsmBody)
    /\ pc = "idle"
    /\ filepath = <<>>
    /\ fragments = NoResult
    /\ my_id = ServerNodeId
    /\ RespIdle
    /\ client = "client"
    /\ server = "handle_message"
    /\ client_path = <<>>
    /\ cpc = "init"
    /\ seen_ids = {}
    /\ received_fragments = <<>>
    /\ complete = FALSE
    /\ saved = NotSaved
    /\ key = <<>>
    /\ waited = 0
    /\ net_get = {}
    /\ net_resp = {}
    /\ client_tx = <<>>
    /\ tx_failed = {}
    /\ now = 0
    /\ earlier = NoHandling
    /\ delivered = <<>>
    /\ buffers = NoBuffers
    /\ previous = NoCall
    /\ ThreadIdle

\* msg_id = (message.get("path"), total, frag_no, len(message.get("data", "")))
MsgIdOf(message) ==
    <<message.path, _to_int(message, "of_frag", 0), _to_int(message, "frag", 0),
      Len(DataOf(message))>>

\* key = (message["path"], total)
BufferKeyOf(message) == <<message.path, _to_int(message, "of_frag", 0)>>

\* handle_response up to the lock (lines 103-115): the message passes the
\* type, path and range tests
PassesChecks(path, message) ==
    /\ TypeOf(message) = "RESP"
    /\ ~PathDiffers(message, path)
    /\ ~(\/ _to_int(message, "of_frag", 0) <= 0
         \/ _to_int(message, "frag", 0) <= 0
         \/ _to_int(message, "frag", 0) > _to_int(message, "of_frag", 0))

\* hook h is called with a packet heard on the channel and runs _handle_raw
\* and handle_response down to "with lock"
HookCall(h) ==
    /\ cpc \in {"waiting", "done"}
    /\ hooks[h].pc = "idle"
    /\ \E t \in net_resp :
          LET c == _coerce_to_dict(TextPacket(ServerNodeId, t))
          IN IF c.ok /\ PassesChecks(client_path, c.payload)
             THEN hooks' = [hooks EXCEPT ![h] = [pc |-> "validated", msg |-> c.payload]]
             ELSE hooks' = hooks
    /\ UNCHANGED <<asmVars, lock, ppc, missing, client_tx, tx_failed, now, earlier, fs, pc, fragVars, my_id,
                   respVars, server, clientVars, netVars>>

\* with lock: if msg_id in seen_ids: return; seen_ids.add(msg_id)
HookLock(h) ==
    /\ hooks[h].pc = "validated"
    /\ lock = ""
    /\ IF MsgIdOf(hooks[h].msg) \in seen_ids
       THEN /\ hooks' = [hooks EXCEPT ![h] = IdleHook]
            /\ UNCHANGED <<lock, seen_ids>>
       ELSE /\ hooks' = [hooks EXCEPT ![h].pc = "locked"]
            /\ lock' = h
            /\ seen_ids' = SeenAdd(seen_ids, MsgIdOf(hooks[h].msg))
    /\ UNCHANGED <<asmVars, ppc, missing, client_tx, tx_failed, now, earlier, fs, pc, fragVars, my_id, respVars,
                   server, client, client_path, cpc, received_fragments, complete,
                   saved, key, waited, netVars>>

\* frag_list = received_fragments.setdefault(key, [None] * total)
HookSetDefault(h) ==
    /\ hooks[h].pc = "locked"
    /\ received_fragments' =
          SetDefault(received_fragments, BufferKeyOf(hooks[h].msg),
                     _to_int(hooks[h].msg, "of_frag", 0))
    /\ hooks' = [hooks EXCEPT ![h].pc = "buffer"]
    /\ UNCHANGED <<asmVars, lock, ppc, missing, client_tx, tx_failed, now, earlier, fs, pc, fragVars, my_id,
                   respVars, server, client, client_path, cpc, seen_ids, complete,
                   saved, key, waited, netVars>>

\* frag_list[frag_no - 1] = message.get("data", "")
HookWrite(h) ==
    /\ hooks[h].pc = "buffer"
    /\ LET idx == IndexOfKey(received_fragments, BufferKeyOf(hooks[h].msg))
       IN received_fragments' =
             [received_fragments EXCEPT ![idx].slots =
                 StoreFragment(@, _to_int(hooks[h].msg, "frag", 0), DataOf(hooks[h].msg))]
    /\ hooks' = [hooks EXCEPT ![h].pc = "written"]
    /\ UNCHANGED <<asmVars, lock, ppc, missing, client_tx, tx_failed, now, earlier, fs, pc, fragVars, my_id,
                   respVars, server, client, client_path, cpc, seen_ids, complete,
                   saved, key, waited, netVars>>

\* have = ...; if have == total: write the file, complete.set(); the lock
\* is released
HookFinish(h) ==
    /\ hooks[h].pc = "written"
    /\ LET idx == IndexOfKey(received_fragments, BufferKeyOf(hooks[h].msg))
           frag_list == received_fragments[idx].slots
       IN IF Have(frag_list) = _to_int(hooks[h].msg, "of_frag", 0)
          THEN /\ saved' = [written |-> TRUE, html |-> JoinSlots(frag_list)]
               /\ complete' = TRUE
          ELSE UNCHANGED <<saved, complete>>
    /\ lock' = ""
    /\ hooks' = [hooks EXCEPT ![h] = IdleHook]
    /\ UNCHANGED <<asmVars, ppc, missing, client_tx, tx_failed, now, earlier, fs, pc, fragVars, my_id, respVars,
                   server, client, client_path, cpc, seen_ids, received_fragments,
                   key, waited, netVars>>

\* while not complete.is_set():
PollTest ==
    /\ cpc = "waiting"
    /\ ppc = "while"
    /\ IF complete
       THEN cpc' = "done" /\ ppc' = "done"
       ELSE cpc' = cpc /\ ppc' = "sleep"
    /\ UNCHANGED <<asmVars, lock, hooks, missing, client_tx, tx_failed, now, earlier, fs, pc, fragVars, my_id,
                   respVars, server, client, client_path, seen_ids, received_fragments,
                   complete, saved, key, waited, netVars>>

\* time.sleep(0.5); if key is None and received_fragments: key = next(iter(...))
PollSleep ==
    /\ ppc = "sleep"
    /\ waited' = Min(waited + 1, Timeout + 1)
    /\ key' = PollKey
    /\ ppc' = IF PollKey # <<>> THEN "read" ELSE "while"
    /\ UNCHANGED <<asmVars, lock, hooks, missing, client_tx, tx_failed, now, earlier, fs, pc, fragVars, my_id,
                   respVars, server, client, client_path, cpc, seen_ids,
                   received_fragments, complete, saved, netVars>>

\* frag_list = received_fragments[key]; missing = [...];
\* if missing and (time.time() - start) > timeout:
PollRead ==
    /\ ppc = "read"
    /\ IF RetryDue(PollMissing, waited)
       THEN missing' = PollMissing /\ ppc' = "send"
       ELSE missing' = <<>> /\ ppc' = "while"
    /\ UNCHANGED <<asmVars, lock, hooks, client_tx, tx_failed, now, earlier, fs, pc, fragVars, my_id, respVars,
                   server, clientVars, netVars>>

\* for frag in missing: send_get_request(radio, path, frag=frag); after the
\* last one, start = time.time()
PollSend ==
    /\ ppc = "send"
    /\ IF missing # <<>>
       THEN /\ client_tx' = <<send_get_request(client_path, <<Head(missing)>>)>>
            /\ tx_failed' = {}
            /\ net_get' = net_get \cup {send_get_request(client_path, <<Head(missing)>>)}
            /\ missing' = Tail(missing)
            /\ UNCHANGED <<ppc, waited>>
       ELSE /\ waited' = 0
            /\ ppc' = "while"
            /\ UNCHANGED <<client_tx, tx_failed, net_get, missing>>
    /\ UNCHANGED <<asmVars, lock, hooks, now, earlier, fs, pc, fragVars, my_id, respVars, server,
                   client, client_path, cpc, seen_ids, received_fragments, complete,
                   saved, key, net_resp>>

HookCalls == \E h \in Hooks : HookCall(h)

HookLocks == \E h \in Hooks : HookLock(h)

HookSetDefaults == \E h \in Hooks : HookSetDefault(h)

HookWrites == \E h \in Hooks : HookWrite(h)

HookFinishes == \E h \in Hooks : HookFinish(h)

ThreadNext ==
    \/ ClientStart
    \/ ServerReceive
    \/ HookCalls
    \/ HookLocks
    \/ HookSetDefaults
    \/ HookWrites
    \/ HookFinishes
    \/ PollTest
    \/ PollSleep
    \/ PollRead
    \/ PollSend

\* a text stays in flight for good: a text that is never handed to a hook
\* is a lost one
ThreadSpec == ThreadInit /\ [][ThreadNext]_vars

\* the retry loop handed a GET to the radio: its for loop advanced
GetSent == Len(missing') < Len(missing)

\* C17: completion is terminal for the Retry Driver: once completion has
\* been reported for the pending path no GET is sent for it any more, in
\* every interleaving of the receive callbacks and the retry loop.
C17_CompletionTerminal == [][complete => ~GetSent]_vars

\* the buffer holds an empty slot whose signature is already in seen_ids
Torn(buffer) ==
    \E sig \in seen_ids :
        /\ <<sig[1], sig[2]>> = buffer.key
        /\ ~buffer.slots[sig[3]].some

\* the retry loop reads received_fragments[key]
PollReads == ppc = "read" /\ ppc' # "read"

\* hook h writes its slot
SlotWrite(h) == hooks[h].pc = "buffer" /\ hooks'[h].pc = "written"

\* C19: duplicate check, slot write and completion check are one atomic
\* unit: of the deliveries of one frame through the redundant hooks exactly
\* one writes the slot, and neither a delivery nor the retry loop observes
\* a buffer with a signature recorded whose slot is not yet written.
C19_AtomicUnit ==
    [][/\ \A h \in Hooks :
             SlotWrite(h) =>
                 LET b == received_fragments[IndexOfKey(received_fragments,
                                                        BufferKeyOf(hooks[h].msg))]
                 IN ~b.slots[_to_int(hooks[h].msg, "frag", 0)].some
       /\ \A h \in Hooks :
             (hooks[h].pc = "validated" /\ hooks'[h].pc = "locked") =>
                 \A b \in 1..Len(received_fragments) : ~Torn(received_fragments[b])
       /\ PollReads =>
             ~Torn(received_fragments[IndexOfKey(received_fragments, key)])]_vars

----------------------------------------------------------------------------
(* Completion and framing claims (AsmSpec) *)

\* C18: the completion signal fires once per completed request: after
\* completion any further RESP for that path, a duplicate or a new
\* transmission, is discarded as ignored, and neither re-fires completion
\* nor rewrites the saved content.
C18_CompletionOnce ==
    [][(/\ Delivery
        /\ complete
        /\ IsResp(LastPacket)
        /\ ForPendingPath(LastEnvelope))
       => UNCHANGED ReasmVars]_vars

\* the packet without the marker in front of its text
Unstamped(packet) == [packet EXCEPT !.text.stamp = FALSE]

\* C20: every decoder tolerates the optional framing stamp: a text made of
\* the marker "MH1 " followed by a serialized envelope decodes to the same
\* envelope as the text without the marker.
C20_StampTolerated ==
    \A i \in 1..Len(delivered) :
        delivered[i].text.stamp =>
            ClientDecode(delivered[i]) = ClientDecode(Unstamped(delivered[i]))

----------------------------------------------------------------------------
(* Wire schema (Spec) *)

\* what handle_response / FragmentAssembler.add read from a RESP envelope
ClientReading(m) ==
    [path |-> m.path, frag |-> _to_int(m, "frag", 0),
     total |-> _to_int(m, "of_frag", 0), data |-> DataOf(m)]

\* the RESP envelopes in flight that carry a fragment of the served file
FragmentFrames ==
    {t.obj : t \in {u \in net_resp : /\ u.kind = "json"
                                     /\ TypeOf(u.obj) = "RESP"
                                     /\ ServedFile \in DOMAIN fs
                                     /\ Has(u.obj, "path")
                                     /\ u.obj.path = client_path}}

\* C21: wire-schema round trip: a RESP envelope built by a server-side
\* sender for fragment frag of of, serialized and parsed, is read by the
\* client reassembler with the same path, frag, total and data, and the
\* total travels in the field named "of".
C21_WireRoundTrip ==
    \A m \in FragmentFrames :
        LET chunks == SplitContent(fs[ServedFile])
            r == ClientReading(m)
        IN /\ r.frag \in 1..Len(chunks)
           /\ r.total = Len(chunks)
           /\ r.data = chunks[r.frag]
           /\ Has(m, "of")
           /\ m.of = Len(chunks)

----------------------------------------------------------------------------
(* Parse errors (RespSpec) *)

\* C22: an inbound frame that cannot be parsed as the structured format is
\* skipped: the receive handler returns without raising and transmits
\* nothing because of it.
C22_UnparseableSkipped ==
    (pc = "handled" /\ rx.text.kind = "plain") => (tx = <<>> /\ ~raised)

----------------------------------------------------------------------------
(* Transport failure while sending a GET *)

\* the fragment indexes a resource of the model can have
FragIndexes == 1..Ceil(MaxLen, ChunkSize)

\* a step of client.py's driver in which the transport failed for a GET
SendFailure == (ClientStart \/ ClientPoll) /\ client = "client" /\ tx_failed' # {}

\* slot k of the retry loop's buffer is filled
KeySlotFilled(k) ==
    /\ key # <<>>
    /\ LET slots == received_fragments[IndexOfKey(received_fragments, key)].slots
       IN k \in 1..Len(slots) /\ slots[k].some

\* a retry round has just handed the GET for fragment k to the radio
Rerequested(k) ==
    /\ waited = 0
    /\ \E i \in 1..Len(client_tx) : client_tx[i] = send_get_request(client_path, <<k>>)

----------------------------------------------------------------------------
(* Paths on the wire *)

\* the envelopes in flight in either direction
WireTexts == net_get \cup net_resp

\* C24: every envelope on the wire carries a path that begins with "/": each
\* GET a client emits, whatever path the user typed, and each RESP a server
\* emits.
C24_PathsAbsolute ==
    \A t \in WireTexts :
        /\ t.kind = "json"
        /\ Has(t.obj, "path")
        /\ StartsWith(t.obj.path, <<"/">>)

----------------------------------------------------------------------------
(* server3: path traversal *)

\* p is the HTML root or lies below it
InsideRoot(p) == p = HtmlRoot \/ StartsWith(p, HtmlRoot \o <<"/">>)

\* the file the request path of the GET resolves to under the HTML root
Requested == Resolve(PathJoin(HtmlRoot, normalize_request_path(PathOrRoot(Req))))

\* C25: server3 blocks path traversal: a GET whose path resolves outside the
\* HTML root, through ".." or into a sibling directory whose name merely
\* starts with the root's name, is answered by the single RESP
\* "400: invalid path" and no file is read for it.
C25_TraversalBlocked ==
    (IsGet /\ entry = "on_json" /\ ~InsideRoot(Requested))
        => tx = <<Server3Status(PathOrRoot(Req), <<"400: invalid path">>)>>

----------------------------------------------------------------------------
(* Overwriting a filled slot *)

\* the slot at index i of the buffer for (path, total) in rf; None when
\* there is no such buffer or index
SlotAt(rf, path, total, i) ==
    LET j == IndexOfKey(rf, <<path, total>>)
    IN IF j = 0 THEN NoneSlot
       ELSE IF i \notin 1..Len(rf[j].slots) THEN NoneSlot
       ELSE rf[j].slots[i]

\* key k of m holds an integer
PlainNumber(m, k) == Has(m, k) /\ k \notin m.bad /\ k \notin m.frac

\* m is a RESP for the pending path with integers 1 <= frag <= of
WellFormed(m) ==
    /\ TypeOf(m) = "RESP"
    /\ ForPendingPath(m)
    /\ PlainNumber(m, "of_frag")
    /\ PlainNumber(m, "frag")
    /\ 1 <= m.frag
    /\ m.frag <= m.of_frag

\* a RESP is delivered for a slot that is filled with data of another length
Rewrites ==
    /\ Delivery
    /\ ClientDecode(LastPacket).ok
    /\ WellFormed(LastEnvelope)
    /\ LET m == LastEnvelope
           old == SlotAt(received_fragments, m.path, m.of_frag, m.frag)
       IN old.some /\ Len(old.v) # Len(DataOf(m))

\* C26: last writer wins per index: a RESP for an already filled slot with the
\* same path, of and frag and a different data length is accepted, and the
\* slot holds the new data afterwards.
C26_LastWriterWins ==
    [][Rewrites =>
          LET m == LastEnvelope
          IN SlotAt(received_fragments', m.path, m.of_frag, m.frag) = SomeSlot(DataOf(m))]_vars

----------------------------------------------------------------------------
(* Completion and the slots *)

\* the buffers the client holds for the pending path
PendingBuffers ==
    {i \in 1..Len(received_fragments) : received_fragments[i].key[1] = client_path}

\* every slot of buffer i is filled
AllFilled(i) ==
    \A j \in 1..Len(received_fragments[i].slots) : received_fragments[i].slots[j].some

\* C27: completion is detected as soon as it is true: between deliveries
\* there is no state in which all slots of the request's buffer are filled and
\* completion has not been signalled, and none in which completion is
\* signalled while a slot is empty.
C27_CompletionPrompt ==
    cpc = "waiting" =>
        /\ (\E i \in PendingBuffers : AllFilled(i)) => complete
        /\ complete => \A i \in PendingBuffers : AllFilled(i)

----------------------------------------------------------------------------
(* Retry cadence *)

\* a poll tick of client.py hands at least one fragment GET to the radio
EmitsFragGet ==
    ClientPoll /\ \E i \in 1..Len(client_tx') : Has(client_tx'[i].obj, "frag")

\* a poll tick of client.py's running loop that finds no missing index
IdleTick == ClientPoll /\ client = "client" /\ ~complete /\ PollMissing = <<>>

\* C28: retry cadence: fragment GETs are emitted only on a poll tick at which
\* the time since the start or the previous round exceeds the timeout, and
\* every such round resets the clock; the clock otherwise advances by one
\* tick at most, so two rounds are never closer together than the timeout;
\* a tick that finds no missing index emits nothing and does not reset the
\* clock.
C28_RetryCadence ==
    /\ [][EmitsFragGet => (waited + 1 > Timeout /\ waited' = 0)]_vars
    /\ [][waited' = 0 \/ waited' = waited \/ waited' = waited + 1]_vars
    /\ [][(waited' = 0 /\ waited # 0) => EmitsFragGet]_vars
    /\ [][IdleTick => (client_tx' = <<>> /\ waited' = Min(waited + 1, Timeout + 1))]_vars

\* a round has just asked for fragments 2 and 3 of three
C28_Witness ==
    /\ client = "client"
    /\ cpc = "waiting"
    /\ ~complete
    /\ waited = 0
    /\ client_tx = <<send_get_request(client_path, <<2>>), send_get_request(client_path, <<3>>)>>

----------------------------------------------------------------------------
(* The first frame of a request *)

\* text t is a GET for path p without a frag field
WholeGet(t, p) ==
    /\ t.kind = "json"
    /\ ~t.stamp
    /\ TypeOf(t.obj) = "GET"
    /\ Has(t.obj, "path")
    /\ t.obj.path = p
    /\ ~Has(t.obj, "frag")

\* the request starts in this step
Starts == cpc = "init" /\ cpc' # "init"

\* C29: on request start the client sends exactly one whole-resource GET
\* (type GET, the requested path, no frag field); it is the first frame the
\* client transmits, and every fragment-specific GET comes after it.
C29_WholeGetFirst ==
    /\ [][Starts => (Len(client_tx') = 1 /\ WholeGet(client_tx'[1], client_path'))]_vars
    /\ [](cpc = "init" => (client_tx = <<>> /\ net_get = {}))
    /\ [][(\E t \in net_get' \ net_get : Has(t.obj, "frag")) => cpc # "init"]_vars

\* the request has just started: the whole-resource GET is the only frame
\* the client has sent
C29_Witness ==
    /\ cpc = "waiting"
    /\ client_tx = <<send_get_request(client_path, <<>>)>>
    /\ net_get = {send_get_request(client_path, <<>>)}
    /\ net_resp = {}
    /\ received_fragments = <<>>
    /\ waited = 0

----------------------------------------------------------------------------
(* TwiceSpec: a server handles GET after GET against one resource store *)

Entries == {"handle_get_message", "handle_message", "handle_packet", "on_json"}

\* the GETs handed to the server: whole and single-fragment requests for
\* html/a, a missing file and the root, and a GET that carries the server's
\* own node id
TwiceGets ==
    {TextPacket(ClientNodeId, send_get_request(path, frag)) :
        path \in {PathA, PathX, <<"/">>}, frag \in {<<>>, <<1>>, <<2>>}} \cup
    {TextPacket(ServerNodeId, send_get_request(PathA, <<>>))}

TwiceInit ==
    /\ fs \in {MakeFs(c) : c \in ChannelContents}
    /\ pc = "idle"
    /\ filepath = <<>>
    /\ fragments = NoResult
    /\ my_id = ""
    /\ RespIdle
    /\ ClientIdle

\* a receive callback of the server runs on a GET; the first handling of the
\* behaviour is kept in earlier
TwiceHandle ==
    /\ pc = "idle"
    /\ \E e \in Entries, p \in TwiceGets :
          LET h == EntryResult(e, p)
              this == [entry |-> e, rx |-> p, tx |-> h.out, raised |-> h.raised]
          IN /\ entry' = e
             /\ rx' = p
             /\ tx' = h.out
             /\ raised' = h.raised
             /\ send_failed' = {}
             /\ earlier' = IF earlier = NoHandling THEN this ELSE earlier
    /\ pc' = "handled"
    /\ UNCHANGED <<asmVars, threadVars, client_tx, tx_failed, now, fs, fragVars, my_id,
                   server, clientVars, netVars>>

TwiceNext ==
    \/ TwiceHandle
    \/ DiscoverNodeId
    \/ Tick
    \/ ServerIdle

TwiceSpec == TwiceInit /\ [][TwiceNext]_vars

\* the handler ran on the GET, and at the entry point, of the first handling
SameGetAgain == IsGet /\ earlier.entry = entry /\ earlier.rx = rx

\* C30: the Responder is stateless and deterministic: handling the same GET
\* again against the unchanged resource store yields the envelope sequence
\* of the first handling, whatever GETs were handled in between.
C30_Deterministic ==
    SameGetAgain => (tx = earlier.tx /\ raised = earlier.raised)

----------------------------------------------------------------------------
(* The shape of the buffers *)

\* the envelopes of the RESPs delivered to the client so far
DeliveredResps ==
    {ClientDecode(delivered[i]).payload :
        i \in {j \in 1..Len(delivered) : IsResp(delivered[j])}}

\* C31: buffer shape: a reassembly buffer keyed (path, of) always has exactly
\* of slots, exists only once a RESP for that key was accepted, and a filled
\* slot i (0-based) only ever holds the data of a delivered RESP with that
\* path, that of and frag = i + 1.
C31_BufferShape ==
    \A b \in 1..Len(received_fragments) :
        LET buf == received_fragments[b]
        IN /\ Len(buf.slots) = buf.key[2]
           /\ \A j \in 1..Len(buf.slots) :
                 buf.slots[j].some =>
                    \E m \in DeliveredResps :
                       /\ Has(m, "path")
                       /\ m.path = buf.key[1]
                       /\ PlainNumber(m, "of_frag")
                       /\ m.of_frag = buf.key[2]
                       /\ PlainNumber(m, "frag")
                       /\ m.frag = j
                       /\ DataOf(m) = buf.slots[j].v

----------------------------------------------------------------------------
(* client2.py: MiniHttpClient in whole-resource mode (want_frag is None) *)

\* the value of key k is truthy for Python's "or"
Truthy(m, k) == Has(m, k) /\ (k \in m.bad \/ k \in m.frac \/ m[k] # 0)

\* js.get("of") or js.get("of_frag") or 1: the key that supplies the total
\* ("" = the default 1)
TotalKey(js) ==
    IF Truthy(js, "of") THEN "of"
    ELSE IF Truthy(js, "of_frag") THEN "of_frag"
    ELSE ""

\* the largest of the stored indexes that lie in 1..total, as a sequence
\* chunks = [frags[i] for i in range(1, total + 1) if i in frags]
Chunks(frags, total) ==
    LET F[i \in 0..(IF total > 0 THEN total ELSE 0)] ==
            IF i = 0 THEN <<>>
            ELSE IF i \in DOMAIN frags THEN Append(F[i - 1], frags[i])
            ELSE F[i - 1]
    IN F[IF total > 0 THEN total ELSE 0]

\* mutant: the test len(chunks) == total is left out
_flush_unchecked(buf) ==
    IF buf.total # 0 /\ Cardinality(DOMAIN buf.frags) >= buf.total
    THEN [written |-> TRUE, html |-> Join(Chunks(buf.frags, buf.total))]
    ELSE NotSaved

\* MiniHttpClient._flush(): what _emit writes, if anything
_flush(buf) ==
    IF /\ buf.total # 0
       /\ Cardinality(DOMAIN buf.frags) >= buf.total
       /\ Len(Chunks(buf.frags, buf.total)) = buf.total
    THEN [written |-> TRUE, html |-> Join(Chunks(buf.frags, buf.total))]
    ELSE NotSaved

\* MiniHttpClient._handle_packet(packet): the buffer afterwards, what was
\* written and whether int() raised
_handle_packet(buf, path, packet) ==
    LET j == JsonLoads(packet.text)
        js == j.obj
        k == TotalKey(js)
        frag == _to_int(js, "frag", 1)
        total == IF k = "" THEN 1 ELSE _to_int(js, k, 1)
        prev_total == IF buf.has THEN buf.total ELSE total
        stored == [has |-> TRUE,
                   total |-> IF prev_total > total THEN prev_total ELSE total,
                   frags |-> (frag :> DataOf(js)) @@ buf.frags]
        same == [buf |-> buf, saved |-> NotSaved, raised |-> FALSE]
    IN IF packet.text.kind = "none" THEN same
       ELSE IF ~j.ok THEN same
       ELSE IF TypeOf(js) # "RESP" THEN same
       ELSE IF ~Has(js, "path") \/ js.path # path THEN same
       ELSE IF "frag" \in js.bad THEN [same EXCEPT !.raised = TRUE]
       ELSE IF k # "" /\ k \in js.bad THEN [same EXCEPT !.raised = TRUE]
       ELSE [buf |-> stored, saved |-> _flush(stored), raised |-> FALSE]

\* frames for /a in the publisher's schema (total under "of"), with indexes
\* outside 1..of, with other totals, without a total, with a total of 0 and
\* with values that are not numbers
Client2Frames ==
    {FragSet[k] : k \in 1..Len(FragSet)} \cup
    {PublisherEnvelope(0, PathA, 2, 3, FragSet[2].data),
     [FragSet[1] EXCEPT !.frag = 0],
     [FragSet[3] EXCEPT !.frag = 4],
     [FragSet[1] EXCEPT !.keys = @ \ {"frag"}],
     [FragSet[1] EXCEPT !.data = <<"y">>, !.of_frag = 2],
     [FragSet[2] EXCEPT !.data = <<"z">>, !.of_frag = 2],
     [FragSet[1] EXCEPT !.keys = @ \ {"of_frag"}],
     [FragSet[1] EXCEPT !.of_frag = 0],
     [FragSet[1] EXCEPT !.bad = {"frag"}],
     [FragSet[1] EXCEPT !.bad = {"of_frag"}],
     [FragSet[1] EXCEPT !.path = PathX],
     [FragSet[1] EXCEPT !.type = "GET"]}

Client2Texts == {JsonText(d) : d \in Client2Frames} \cup {PlainText}

Client2Init ==
    /\ fs = MakeFs(AsmBody)
    /\ pc = "idle"
    /\ filepath = <<>>
    /\ fragments = NoResult
    /\ my_id = ServerNodeId
    /\ RespIdle
    /\ client = "client2"
    /\ server = ""
    /\ client_path = PathA
    /\ cpc = "init"
    /\ seen_ids = {}
    /\ received_fragments = <<>>
    /\ complete = FALSE
    /\ saved = NotSaved
    /\ key = <<>>
    /\ waited = 0
    /\ net_get = {}
    /\ net_resp = {}
    /\ client_tx = <<>>
    /\ tx_failed = {}
    /\ now = 0
    /\ earlier = NoHandling
    /\ delivered = <<>>
    /\ buffers = NoBuffers
    /\ previous = NoCall
    /\ ThreadIdle

\* MiniHttpClient.run() up to its wait loop: the callbacks are attached and
\* send_get() sends the GET for self.path
Client2Run ==
    /\ cpc = "init"
    /\ cpc' = "waiting"
    /\ client_tx' = <<send_get_request(client_path, <<>>)>>
    /\ net_get' = net_get \cup {send_get_request(client_path, <<>>)}
    /\ UNCHANGED <<asmVars, threadVars, tx_failed, now, earlier, fs, pc, fragVars, my_id,
                   respVars, server, client, client_path, seen_ids, received_fragments,
                   complete, saved, key, waited, net_resp>>

\* a receive callback runs _handle_packet; _emit ends the process with
\* os._exit(0)
Client2Deliver ==
    /\ cpc = "waiting"
    /\ Len(delivered) < MaxDeliveries
    /\ \E t \in Client2Texts :
          LET packet == TextPacket(ServerNodeId, t)
              st == _handle_packet(buffers, client_path, packet)
          IN /\ delivered' = Append(delivered, packet)
             /\ buffers' = st.buf
             /\ saved' = st.saved
             /\ cpc' = IF st.saved.written THEN "done" ELSE cpc
    /\ UNCHANGED <<previous, threadVars, client_tx, tx_failed, now, earlier, fs, pc, fragVars, my_id,
                   respVars, server, client, client_path, seen_ids, received_fragments,
                   complete, key, waited, netVars>>

\* the deadline of run() passes: os._exit(2)
Client2Timeout ==
    /\ cpc = "waiting"
    /\ cpc' = "timeout"
    /\ UNCHANGED <<asmVars, threadVars, client_tx, tx_failed, now, earlier, fs, pc, fragVars,
                   my_id, respVars, server, client, client_path, seen_ids,
                   received_fragments, complete, saved, key, waited, netVars>>

Client2Next ==
    \/ Client2Run
    \/ Client2Deliver
    \/ Client2Timeout

Client2Spec == Client2Init /\ [][Client2Next]_vars

\* the total a frame announces: the first of "of" and "of_frag" that is not
\* zero, 1 when there is none
Announced(m) ==
    IF Has(m, "of") /\ m.of # 0 THEN m.of
    ELSE IF Has(m, "of_frag") /\ m.of_frag # 0 THEN m.of_frag
    ELSE 1

\* the RESP envelopes for the requested path, with numbers for frag and the
\* total, delivered so far
Announcements ==
    {delivered[i].text.obj :
        i \in {n \in 1..Len(delivered) :
                 LET t == delivered[n].text
                 IN /\ t.kind = "json"
                    /\ ~t.stamp
                    /\ TypeOf(t.obj) = "RESP"
                    /\ Has(t.obj, "path")
                    /\ t.obj.path = client_path
                    /\ t.obj.bad = {}}}

\* the largest total announced so far
LargestTotal ==
    CHOOSE n \in {Announced(m) : m \in Announcements} :
        \A m \in Announcements : Announced(m) <= n

\* C32: client2 in whole-resource mode writes output only when it holds a
\* fragment for every index 1..total, total being the largest total
\* announced for the path so far, and the output is the concatenation of
\* those fragments in index order; stored fragments with an index outside
\* 1..total neither trigger nor enter the output.
C32_Client2Output ==
    saved.written =>
        /\ Announcements # {}
        /\ \A i \in 1..LargestTotal : i \in DOMAIN buffers.frags
        /\ saved.html = Join([i \in 1..LargestTotal |-> buffers.frags[i]])

\* the output was written while fragment 0 was stored next to 1, 2 and 3
C32_Witness ==
    /\ saved.written
    /\ DOMAIN buffers.frags = {0, 1, 2, 3}
    /\ buffers.total = 3
    /\ saved.html = AsmBody

----------------------------------------------------------------------------
(* Packets of the server's own (RespSpec) *)

\* C33: the server never responds to a self-originated packet: for every
\* packet whose sender id is the server's own node id, start_server's
\* handle_message transmits nothing, also when the packet arrives after the
\* handlers were attached and before the node id was discovered.
C33_NoSelfResponse ==
    (pc = "handled" /\ entry = "handle_message" /\ rx.fromId = ServerNodeId)
        => tx = <<>>

----------------------------------------------------------------------------
(* Completion under fair loss *)

\* a GET is on the air whose answer is not yet on the air in full
ServerCanAnswer ==
    \E t \in net_get :
        LET out == EntryOut(server, TextPacket(ClientNodeId, t))
        IN \E i \in 1..Len(out) : JsonText(out[i]) \notin net_resp

\* the retry loop keeps running, and a frame that is on the air again and
\* again is eventually heard: by the server if it is a GET, by the client's
\* receive callback if it is a RESP
FairLossSpec ==
    /\ Spec
    /\ WF_vars(ClientPoll)
    /\ ([]<>ServerCanAnswer => []<><<ServerReceive>>_vars)
    /\ SF_vars(ClientReceive)

\* C34: under fair loss every request started with start_client for a
\* resource that exists eventually completes, whatever subset of the
\* fragments, all of them included, was lost in earlier rounds.
C34_EventuallyComplete ==
    (cpc = "waiting" /\ ServedFile \in DOMAIN fs) ~> complete

----------------------------------------------------------------------------
(* Duplicates are told by length (AsmSpec) *)

\* envelope m has the path, of, frag and data length of envelope e and
\* other data
SameLengthOtherData(m, e) ==
    /\ m.path = e.path
    /\ m.of_frag = e.of_frag
    /\ m.frag = e.frag
    /\ Len(DataOf(m)) = Len(DataOf(e))
    /\ DataOf(m) # DataOf(e)

\* a RESP is delivered after a RESP with its path, of, frag and data length
\* and with other data
LaterSameLength ==
    /\ Delivery
    /\ ClientDecode(LastPacket).ok
    /\ WellFormed(LastEnvelope)
    /\ \E i \in 1..Len(delivered) :
          /\ ClientDecode(delivered[i]).ok
          /\ WellFormed(ClientDecode(delivered[i]).payload)
          /\ SameLengthOtherData(LastEnvelope, ClientDecode(delivered[i]).payload)

\* C35: duplicates are told by length only: once a RESP with signature
\* (path, of, frag, L) was accepted, a later RESP with the same path, of and
\* frag, the same data length L and different data is dropped as a
\* duplicate, and slot frag - 1 keeps what it held.
C35_DedupByLength ==
    [][LaterSameLength =>
          /\ UNCHANGED ReasmVars
          /\ LET m == LastEnvelope
             IN SlotAt(received_fragments', m.path, m.of_frag, m.frag)
                   = SlotAt(received_fragments, m.path, m.of_frag, m.frag)]_vars

\* fragments 1 and 2 were accepted, then fragment 1 came again with the data
\* of fragment 2, cut to the same length; slot 0 still holds the first data
C35_Witness ==
    /\ client_path = PathA
    /\ Len(delivered) = 3
    /\ delivered[1] = FramePacket(FragSet[1])
    /\ delivered[2] = FramePacket(FragSet[2])
    /\ delivered[3] = FramePacket([FragSet[1] EXCEPT !.data = FragSet[2].data])
    /\ FragSet[1].data # FragSet[2].data
    /\ Len(received_fragments) = 1
    /\ received_fragments[1].slots[1] = SomeSlot(FragSet[1].data)
    /\ received_fragments[1].slots[2] = SomeSlot(FragSet[2].data)

----------------------------------------------------------------------------
(* AgainSpec: client.py, start_client called a second time in the process.  *)
(* received_fragments is a module global; seen_ids, complete and the retry   *)
(* loop's key and start are locals of each call; the receive callbacks of    *)
(* the earlier call stay subscribed.                                         *)

\* the paths start_client is called with
AgainPaths == {PathA, PathX}

\* the fragments of /a, fragment 1 of an older two-fragment version of /a,
\* fragment 1 with other data of the same length, the one fragment of /x
AgainFrames ==
    {FragSet[k] : k \in 1..Len(FragSet)} \cup
    {RespEnvelope(PathA, 1, 2, <<"y">>),
     [FragSet[1] EXCEPT !.data = FragSet[2].data],
     RespEnvelope(PathX, 1, 1, <<"z">>)}

AgainTexts == {JsonText(d) : d \in AgainFrames}

AgainInit == AsmInit /\ client = "client"

\* the first call of start_client
AgainStart == ClientStart /\ client_path' \in AgainPaths

\* start_client has returned and is called again: new locals, the module's
\* received_fragments as the earlier call left it
ClientAgain ==
    /\ cpc = "done"
    /\ previous.calls = 0
    /\ \E p \in AgainPaths, fails \in BOOLEAN, fails2 \in BOOLEAN :
          LET text == send_get_request(p, <<>>)
              r == InitialGet(text, fails, fails2)
          IN /\ client_path' = p
             /\ net_get' = net_get \cup r.sent
             /\ client_tx' = r.handed
             /\ tx_failed' = r.failed
             /\ cpc' = IF r.raised THEN "crashed" ELSE "waiting"
    /\ previous' = [calls |-> 1, path |-> client_path, seen |-> seen_ids,
                    at |-> Len(delivered)]
    /\ seen_ids' = {}
    /\ complete' = FALSE
    /\ key' = <<>>
    /\ waited' = 0
    /\ UNCHANGED <<delivered, buffers, threadVars, now, earlier, fs, pc, fragVars, my_id,
                   respVars, server, client, received_fragments, saved, net_resp>>

\* a receive hook of the latest call runs on a packet
AgainDeliver ==
    /\ cpc \in {"waiting", "done"}
    /\ Len(delivered) < MaxDeliveries
    /\ \E t \in AgainTexts :
          LET packet == TextPacket(ServerNodeId, t)
              st == _handle_raw(ClientState, client_path, packet)
          IN /\ delivered' = Append(delivered, packet)
             /\ seen_ids' = st.seen
             /\ received_fragments' = st.rf
             /\ complete' = st.complete
             /\ saved' = st.saved
    /\ UNCHANGED <<buffers, previous, threadVars, client_tx, tx_failed, now, earlier, fs, pc,
                   fragVars, my_id, respVars, server, client, client_path, cpc, key,
                   waited, netVars>>

\* a receive hook the earlier call subscribed runs on a packet: its own
\* path and seen_ids, the module's received_fragments
PriorDeliver ==
    /\ previous.calls = 1
    /\ \E t \in AgainTexts :
          LET packet == TextPacket(ServerNodeId, t)
              st == _handle_raw([seen |-> previous.seen, rf |-> received_fragments,
                                 complete |-> TRUE, saved |-> saved],
                                previous.path, packet)
          IN /\ previous' = [previous EXCEPT !.seen = st.seen]
             /\ received_fragments' = st.rf
             /\ saved' = st.saved
    /\ UNCHANGED <<delivered, buffers, threadVars, client_tx, tx_failed, now, earlier, fs, pc,
                   fragVars, my_id, respVars, server, client, client_path, cpc, seen_ids,
                   complete, key, waited, netVars>>

AgainNext ==
    \/ AgainStart
    \/ AgainDeliver
    \/ ClientPoll
    \/ ClientAgain
    \/ PriorDeliver

AgainSpec == AgainInit /\ [][AgainNext]_vars

\* no buffer of rf for path p has a filled slot
NothingHeld(rf, p) ==
    \A b \in 1..Len(rf) :
        rf[b].key[1] = p => \A j \in 1..Len(rf[b].slots) : ~rf[b].slots[j].some

\* the latest call's hook was handed, after that call began, a RESP with
\* path p, total of, index j and data d
AcceptedNow(p, of, j, d) ==
    \E i \in (previous.at + 1)..Len(delivered') :
        LET e == ClientDecode(delivered'[i])
        IN /\ e.ok
           /\ WellFormed(e.payload)
           /\ e.payload.path = p
           /\ e.payload.of_frag = of
           /\ e.payload.frag = j
           /\ DataOf(e.payload) = d

\* the second call reports completion
CompletesAgain == AgainDeliver /\ previous.calls = 1 /\ ~complete /\ complete'

\* C36: reassembly state is per request: when start_client is called again
\* in the same process, for the same or another path, no slot is filled for
\* the new request at its start, and the content it reports complete
\* consists only of fragments accepted during that request.
C36_PerRequestState ==
    [][/\ ClientAgain => NothingHeld(received_fragments', client_path')
       /\ CompletesAgain =>
             LET m == LastEnvelope
             IN \A j \in 1..m.of_frag :
                   AcceptedNow(m.path, m.of_frag, j,
                               SlotAt(received_fragments', m.path, m.of_frag, j).v)]_vars

----------------------------------------------------------------------------
(* The buffer of the retry loop (AgainSpec) *)

\* the deliveries to the latest call's hook that handle_response stores or
\* has stored: RESPs for the pending path with 1 <= frag <= of
StoredNow ==
    {i \in (previous.at + 1)..Len(delivered) :
        /\ ClientDecode(delivered[i]).ok
        /\ WellFormed(ClientDecode(delivered[i]).payload)}

\* the total of the latest of them
StoringTotal ==
    LET i == CHOOSE n \in StoredNow : \A k \in StoredNow : k <= n
    IN ClientDecode(delivered[i]).payload.of_frag

\* an iteration of the retry loop that reads a buffer
Inspects == ClientPoll /\ ~complete /\ key' # <<>>

\* C37: the buffer the retry loop inspects is always the buffer of the
\* pending request: its key has the requested path and the total under
\* which handle_response is currently storing, also when buffers for other
\* paths or totals exist.
C37_RetryBufferPending ==
    [][Inspects =>
          /\ key'[1] = client_path
          /\ StoredNow # {} => key'[2] = StoringTotal]_vars

----------------------------------------------------------------------------
(* SendSpec: the servers with a transport that can fail.  tx holds the       *)
(* envelopes the handler handed to the transport, send_failed the indexes    *)
(* of those whose send failed.                                               *)

\* server.py's _send_text(r, text): iface.sendText in a try, the fallback
\* r.send in a try inside its except; fails = both raise. Nothing leaves
\* the function.
server_send_text(text, fails) == [sent |-> ~fails, raised |-> FALSE]

\* the send function entry point e uses: server.py's _send_text, or
\* publisher's _send_text_core behind send_json and send_envelope
SendOf(e, text, fails) ==
    IF e = "on_json" THEN _send_text_core(text, fails) ELSE server_send_text(text, fails)

\* "for env in envelopes: _send_text(radio, payload)" and send_fragments'
\* "for idx, chunk in enumerate(frags, start=1): send_envelope(...)";
\* failing = the indexes whose transport send fails. A raise ends the loop
\* at that index.
TransmitLoop(e, envs, failing) ==
    LET R == {i \in failing : SendOf(e, JsonText(envs[i]), TRUE).raised}
        n == IF R = {} THEN Len(envs) ELSE CHOOSE i \in R : \A j \in R : i <= j
    IN [handed |-> SubSeq(envs, 1, n), failed |-> (1..n) \cap failing]

\* entry point e runs on a packet while the transport fails for some of
\* the envelopes; both handlers catch what the send raises
Transmit(e) ==
    /\ \E p \in InboundPackets :
          LET h == EntryResult(e, p)
          IN \E failing \in SUBSET (1..Len(h.out)) :
                LET r == TransmitLoop(e, h.out, failing)
                IN /\ entry' = e
                   /\ rx' = p
                   /\ tx' = r.handed
                   /\ send_failed' = r.failed
                   /\ raised' = h.raised
    /\ pc' = "handled"
    /\ UNCHANGED <<asmVars, threadVars, client_tx, tx_failed, now, earlier, fs, fragVars,
                   my_id, server, clientVars, netVars>>

\* start_server.handle_message
HandleMessageSend ==
    /\ pc = "idle"
    /\ Transmit("handle_message")

\* server3's on_json
Server3OnJsonSend ==
    /\ pc = "idle"
    /\ Transmit("on_json")

SendNext ==
    \/ HandleMessageSend
    \/ Server3OnJsonSend
    \/ DiscoverNodeId
    \/ ServerIdle

SendSpec == RespInit /\ [][SendNext]_vars

\* C38: a transport send failure on one fragment of a multi-fragment
\* response does not suppress the others: the server still attempts every
\* remaining fragment, in order.
C38_FailureNotSuppressing ==
    (pc = "handled" /\ send_failed # {} /\ Len(EntryOut(entry, rx)) > 1)
        => tx = EntryOut(entry, rx)


============================================================================
